---- MODULE Spec2Model ----
(***************************************************************************)
(* A model of the TCP connection state machine of muduo: one TcpConnection *)
(* owned by a worker EventLoop, the TcpServer that holds it in its map on  *)
(* the main EventLoop, and a user thread that calls the thread-safe part   *)
(* of the connection's interface (send, shutdown, forceClose,              *)
(* forceCloseWithDelay, startRead, stopRead).                              *)
(*                                                                         *)
(* The user thread keeps a TcpConnectionPtr for as long as it calls the    *)
(* connection, so the connection object outlives every step of the model.  *)
(* The server runs with its default connection and message callbacks       *)
(* (defaultConnectionCallback, defaultMessageCallback); the write-complete *)
(* and the high-water callbacks are observers that call nothing back.      *)
(*                                                                         *)
(* A handler that runs on the worker's thread is one step: the loop is     *)
(* single-threaded.  A call from the user thread is one step per access to *)
(* shared memory (the read of state_, the write of state_, the enqueue     *)
(* under the loop's mutex), so that the loop's handlers interleave with it.*)
(***************************************************************************)
EXTENDS Integers, Sequences, FiniteSets, TLC

\* ------------------------------------------------------------------ bounds
MaxCalls == 2          \* calls the user thread makes in one behaviour
MaxConns == 3          \* connections the acceptor hands to the server
MaxTasks == 3          \* tasks handed to one EventLoop in one behaviour
MaxFds == 3            \* descriptors the process may hold besides the listener
MaxBacklog == 2        \* connections the listen queue holds
MaxStarts == 2         \* calls of TcpServer::start one thread makes
MaxThreads == 4        \* worker loops TcpServer::setThreadNum may ask for
MaxPicks == 20         \* calls of getNextLoop in one behaviour
MaxMsgLen == 2         \* bytes of one message
HighWaterMark == 2     \* highWaterMark_ as set by setHighWaterMark
InitialSize == 3       \* initialSize a Buffer is constructed with
MaxLen == 2            \* bytes one Buffer operation is asked to move
MaxGrow == 5           \* bytes a Buffer's vector may grow beyond its first size
ExtrabufSize == 2      \* sizeof extrabuf in Buffer::readFd
MaxBufOps == 5         \* operations one Buffer undergoes in one behaviour
MaxQueueSize == 2      \* the largest maxSize given to ThreadPool::setMaxQueueSize
MaxRuns == 2           \* calls of ThreadPool::run one producer makes
BufferSize == 2        \* bytes one AsyncLogging::Buffer holds
LineLen == 1           \* bytes of a log line given to AsyncLogging::append
MaxAppends == 28       \* calls of AsyncLogging::append in one behaviour

\* ------------------------------------------------------------- state enum
\* Buffer::kCheapPrepend
kCheapPrepend == 8

DropAbove == 25        \* buffersToWrite.size() > 25 in threadFunc
kDisconnected == "kDisconnected"
kConnecting == "kConnecting"
kConnected == "kConnected"
kDisconnecting == "kDisconnecting"
StateE == {kDisconnected, kConnecting, kConnected, kDisconnecting}

\* Channel interest bits
kReadEvent == "kReadEvent"
kWriteEvent == "kWriteEvent"

\* The threads: the worker loop's, the main loop's (TcpServer), the user's.
WorkerThread == "worker"
MainThread == "main"
UserThread == "user"

\* What undefined behaviour (a call into the destroyed TcpServer) may do.
UBOutcomes == {"crash", "proceed"}

\* The embedder has set a write-complete and a high-water callback.
hasWriteComplete == TRUE
hasHighWater == TRUE

VARIABLES
  state_,            \* TcpConnection::state_
  reading_,          \* TcpConnection::reading_
  outputBuffer_,     \* TcpConnection::outputBuffer_, the readable bytes
  events_,           \* Channel::events_ of the connection's channel
  added,             \* the channel is known to the loop's poller
  wire,              \* bytes the socket accepted, in order
  wrShut,            \* the socket is shut down for writing
  eof,               \* the peer is gone: a read returned 0, or a hang-up
  pendingFunctors_,  \* worker EventLoop::pendingFunctors_
  functors,          \* the local vector doPendingFunctors swapped out
  phase,             \* where the worker's loop() stands
  timers,            \* pending forceCloseWithDelay timers of the worker
  mainPending,       \* pendingFunctors_ of the main EventLoop
  connections_,      \* TcpServer::connections_ holds the connection
  serverAlive,       \* the TcpServer has not been destroyed
  aborted,           \* the process was aborted (assert, crash)
  upc,               \* the user thread: the call in progress
  calls,             \* calls the user thread has made
  nextSeq,           \* number of the next message passed to send()
  upCount,           \* connection callbacks that saw connected()
  downCount,         \* connection callbacks that saw !connected()
  closeCount,        \* invocations of closeCallback_
  everDisconnected,  \* state_ has been kDisconnected
  closeHandled,      \* handleClose or connectDestroyed has disabled the channel
  destroyedRun,      \* connectDestroyed has run
  late,              \* callbacks invoked after state_ had been kDisconnected
  offLoop,           \* accesses to the connection's fields off the worker thread
  halfClose,         \* observations of Socket::shutdownWrite
  io,                \* the system calls of the last step and their results
  nextConnId_,       \* TcpServer::nextConnId_
  offThread,         \* channel updates and callbacks made off the worker thread
  mapOff,            \* changes of connections_ made off the main thread
  closeLog,          \* the steps of the close path, in the order they happened
  removeSaw,         \* what Channel::remove has met: interest mask, state_
  tied_,             \* Channel::tied_: the channel has a weak_ptr to its owner
  revents_,          \* Channel::revents_ of the dispatch made in the last step
  called,            \* the channel callbacks that dispatch invoked, in order
  upc2,              \* a second user thread, which calls send() once: where it is
  \* The server with several connections on several worker loops:
  connMap,           \* TcpServer::connections_, the connections it holds
  srvNextId,         \* TcpServer::nextConnId_
  connState,         \* per connection: where its life stands
  loopQueue,         \* per loop: EventLoop::pendingFunctors_
  mapLog,            \* the changes of connections_: what, which, on which thread
  \* One EventLoop and the threads that hand it tasks:
  evAt,              \* where the owner thread stands in loop()
  evPending,         \* EventLoop::pendingFunctors_
  evFunctors,        \* the local vector of doPendingFunctors
  callingPendingFunctors_,  \* EventLoop::callingPendingFunctors_
  wakeupFd_,         \* EventLoop::wakeupFd_ is readable
  quit_,             \* EventLoop::quit_
  otherAt,           \* where the other thread stands in queueInLoop
  nextTask,          \* the number of the next task
  ran,               \* the tasks executed: which, on which thread
  queued,            \* the tasks pushed by queueInLoop: which, by whom, when
  runLog,            \* the calls of runInLoop: which, by whom, what it did
  swapped,           \* the tasks the last doPendingFunctors swapped out
  drainRan,          \* the functors that doPendingFunctors has called since
  sinceSwap,         \* the tasks pushed since the last swap
  quitLog,           \* the calls of quit: by whom, when
  \* The acceptor and the descriptors of the process:
  idleFd_,           \* Acceptor::idleFd_: what the descriptor is, or "none" (-1)
  acAt,              \* where Acceptor::handleRead stands
  acQueue,           \* connections pending in the listen queue
  acConns,           \* descriptors of accepted connections still open
  acOthers,          \* descriptors the other threads of the process hold
  acRemoved,         \* the handleRead in progress has taken a connection
  acLog,             \* the read events handled: what each achieved
  \* TcpServer::start called by several threads:
  started_,          \* TcpServer::started_ (AtomicInt32)
  stAt,              \* per thread: where it stands in start()
  stCalls,           \* per thread: calls of start() made
  poolStarts,        \* calls of threadPool_->start
  listens,           \* Acceptor::listen functors handed to the main loop
  stPending,         \* Acceptor::listen functors waiting in the main loop
  listenning_,       \* Acceptor::listenning_
  \* The pool of worker loops:
  numThreads_,       \* EventLoopThreadPool::numThreads_
  plStarted,         \* EventLoopThreadPool::started_
  loops_,            \* EventLoopThreadPool::loops_
  next_,             \* EventLoopThreadPool::next_ (index into loops_, from 0)
  picks,             \* what the calls of getNextLoop returned, in order
  \* One Buffer:
  buffer_,           \* Buffer::buffer_, the vector of bytes
  readerIndex_,      \* Buffer::readerIndex_
  writerIndex_,      \* Buffer::writerIndex_
  bufAborted,        \* an assertion of Buffer has failed
  bufOps,            \* operations the Buffer has undergone
  bufLast,           \* the last operation: its name, its argument, the Buffer before it
  host,              \* the byte order of the host, once an integer helper has shown it
  intQueue,          \* the integers appended by appendIntN and not yet read, oldest first
  intMixed,          \* the content may hold bytes no appendIntN has written
  intResult,         \* what the last peekIntN or readIntN returned
  \* One ThreadPool:
  queue_,            \* ThreadPool::queue_, the tasks by the thread that handed them in
  running_,          \* ThreadPool::running_
  maxQueueSize_,     \* ThreadPool::maxQueueSize_
  threads_,          \* ThreadPool::threads_, the pool's threads
  tpAt,              \* per thread: where it stands in the pool's code
  tpSeen,            \* per pool thread: running_ as its last lock of mutex_ showed it
  tpRuns,            \* per producer: calls of run() it has made
  tpLog,             \* what happened: a producer waited, pushed after waiting
  \* One AsyncLogging:
  currentBuffer_,    \* AsyncLogging::currentBuffer_
  nextBuffer_,       \* AsyncLogging::nextBuffer_
  buffers_,          \* AsyncLogging::buffers_
  newBuffer1,        \* threadFunc's newBuffer1
  newBuffer2,        \* threadFunc's newBuffer2
  buffersToWrite,    \* threadFunc's buffersToWrite
  output,            \* bytes of the buffers handed to the LogFile
  logging_running_,  \* AsyncLogging::running_
  alAt,              \* where the back-end thread stands in threadFunc
  alAborted,         \* an assert of threadFunc has failed
  alAppends,         \* calls of append() made
  alLog              \* what happened: spares taken, given, refilled, buffers dropped

connVars == << state_, reading_, outputBuffer_, events_, added, wire, wrShut, eof,
           pendingFunctors_, functors, phase, timers, mainPending,
           connections_, serverAlive, aborted, upc, calls, nextSeq, upCount, downCount, closeCount,
           everDisconnected, closeHandled, destroyedRun, late, offLoop,
           halfClose, io, nextConnId_, offThread, mapOff, closeLog, removeSaw,
           tied_, revents_, called, upc2 >>
mapVars == << connMap, srvNextId, connState, loopQueue, mapLog >>
evVars == << evAt, evPending, evFunctors, callingPendingFunctors_, wakeupFd_,
            quit_, otherAt, nextTask, ran, queued, runLog,
            swapped, drainRan, sinceSwap, quitLog >>
acVars == << idleFd_, acAt, acQueue, acConns, acOthers, acRemoved, acLog >>
stVars == << started_, stAt, stCalls, poolStarts, listens, stPending,
            listenning_ >>
plVars == << numThreads_, plStarted, loops_, next_, picks >>
bufVars == << buffer_, readerIndex_, writerIndex_, bufAborted, bufOps, bufLast,
             host, intQueue, intMixed, intResult >>
tpVars == << queue_, running_, maxQueueSize_, threads_, tpAt, tpSeen, tpRuns, tpLog >>
alVars == << currentBuffer_, nextBuffer_, buffers_, newBuffer1, newBuffer2, buffersToWrite,
            output, logging_running_, alAt, alAborted, alAppends, alLog >>
vars == << connVars, mapVars, evVars, acVars, stVars, plVars, bufVars, tpVars, alVars >>

\* The fields a handler of the loop thread may change, as one record.
World ==
  [ state_ |-> state_, reading_ |-> reading_, outputBuffer_ |-> outputBuffer_,
    events_ |-> events_, added |-> added, wire |-> wire, wrShut |-> wrShut,
    eof |-> eof,
    pendingFunctors_ |-> pendingFunctors_, mainPending |-> mainPending,
    connections_ |-> connections_, aborted |-> aborted,
    upCount |-> upCount, downCount |-> downCount, closeCount |-> closeCount,
    everDisconnected |-> everDisconnected, closeHandled |-> closeHandled,
    destroyedRun |-> destroyedRun, late |-> late, halfClose |-> halfClose,
    io |-> io, nextConnId_ |-> nextConnId_, offThread |-> offThread,
    mapOff |-> mapOff, closeLog |-> closeLog, removeSaw |-> removeSaw,
    tied_ |-> tied_, revents_ |-> revents_, called |-> called,
    upc2 |-> upc2,
    self |-> WorkerThread ]

\* The step ends: the fields as the handler left them are the next state.
Commit(w) ==
  \E c \in {w} :
    /\ state_' = c.state_
    /\ reading_' = c.reading_
    /\ outputBuffer_' = c.outputBuffer_
    /\ events_' = c.events_
    /\ added' = c.added
    /\ wire' = c.wire
    /\ wrShut' = c.wrShut
    /\ eof' = c.eof
    /\ pendingFunctors_' = c.pendingFunctors_
    /\ mainPending' = c.mainPending
    /\ connections_' = c.connections_
    /\ aborted' = c.aborted
    /\ upCount' = c.upCount
    /\ downCount' = c.downCount
    /\ closeCount' = c.closeCount
    /\ everDisconnected' = c.everDisconnected
    /\ closeHandled' = c.closeHandled
    /\ destroyedRun' = c.destroyedRun
    /\ late' = c.late
    /\ halfClose' = c.halfClose
    /\ io' = c.io
    /\ nextConnId_' = c.nextConnId_
    /\ offThread' = c.offThread
    /\ mapOff' = c.mapOff
    /\ closeLog' = c.closeLog
    /\ removeSaw' = c.removeSaw
    /\ tied_' = c.tied_
    /\ revents_' = c.revents_
    /\ called' = c.called
    /\ upc2' = c.upc2
    /\ UNCHANGED << mapVars, evVars, acVars, stVars, plVars, bufVars, tpVars, alVars >>

\* A step starts: it has made no system call yet.  It runs on the worker
\* loop's thread ...
Begin(w) == [w EXCEPT !.io = {}, !.revents_ = {}, !.called = << >>]

\* ... or on thread t.
BeginOn(w, t) == [Begin(w) EXCEPT !.self = t]

\* ------------------------------------------------------------- primitives
\* assert(cond): the build checks its assertions, a failed one aborts.
CAssert(w, cond) ==
  IF cond THEN w ELSE [w EXCEPT !.aborted = TRUE]

setState(w, s) ==
  [w EXCEPT !.state_ = s,
            !.everDisconnected = @ \/ (s = kDisconnected)]

isWriting(w) == kWriteEvent \in w.events_
isReading(w) == kReadEvent \in w.events_

\* The running thread does what to the connection's channel or callbacks.
Touch(w, what) ==
  [w EXCEPT !.offThread = IF w.self = WorkerThread THEN @ ELSE @ \cup {what}]

\* Channel::update: the poller learns the new interest mask.
update(w) == Touch(w, "update")

\* Channel::enableReading, enableWriting, disableReading, disableWriting,
\* disableAll: change events_ and update the poller.
enableReading(w) == update([w EXCEPT !.events_ = @ \cup {kReadEvent}, !.added = TRUE])
enableWriting(w) == update([w EXCEPT !.events_ = @ \cup {kWriteEvent}, !.added = TRUE])
disableReading(w) == update([w EXCEPT !.events_ = @ \ {kReadEvent}])
disableWriting(w) == update([w EXCEPT !.events_ = @ \ {kWriteEvent}])
disableAll(w) == update([w EXCEPT !.events_ = {}])

\* Channel::remove: the interest mask must be empty; drops the channel.
remove(w) ==
  LET s == Touch([w EXCEPT !.removeSaw =
                              @ \cup {[mask |-> w.events_, state |-> w.state_]}],
                 "remove")
      a == CAssert(s, s.events_ = {})
  IN  IF a.aborted THEN a ELSE [a EXCEPT !.added = FALSE]

\* EventLoop::queueInLoop on the worker loop: append under the mutex.
queueInLoop(w, f) == [w EXCEPT !.pendingFunctors_ = Append(@, f)]

\* A user callback is invoked.
Fire(w, cb) ==
  Touch([w EXCEPT !.late = IF w.everDisconnected THEN @ \cup {cb} ELSE @], cb)

\* A user callback is handed to queueInLoop.
Schedule(w, cb) == queueInLoop(w, [op |-> cb])

\* defaultConnectionCallback: tells UP from DOWN by conn->connected().
connectionCallback_(w) ==
  IF w.state_ = kConnected
    THEN [Fire(w, "connectionUp") EXCEPT !.upCount = @ + 1]
    ELSE [Fire(w, "connectionDown") EXCEPT !.downCount = @ + 1,
                                          !.closeLog = Append(@, <<"down", w.self>>)]

\* defaultMessageCallback: discards the input.
messageCallback_(w) == Fire(w, "message")

\* sockets::write as the handlers see it: the bytes accepted, or -1 and errno.
Errnos == {"EWOULDBLOCK", "EPIPE", "ECONNRESET", "EINTR"}
WriteResults(w, len) ==
  IF w.wrShut
    THEN {[n |-> -1, errno |-> "EPIPE"]}
    ELSE {[n |-> k, errno |-> "none"] : k \in 0..len}
           \cup {[n |-> -1, errno |-> e] : e \in Errnos}

NoteIO(w, call, res) ==
  [w EXCEPT !.io = @ \cup {[call |-> call, n |-> res.n, errno |-> res.errno]}]

Drop(s, n) == SubSeq(s, n + 1, Len(s))
Take(s, n) == SubSeq(s, 1, n)

\* Socket::shutdownWrite
shutdownWrite(w) ==
  [w EXCEPT !.wrShut = TRUE,
            !.halfClose = @ \cup {[buffered |-> Len(w.outputBuffer_) > 0,
                                    afterClose |-> w.closeHandled]}]

\* ------------------------------------------------- TcpConnection, in loop
\* TcpConnection::shutdownInLoop
shutdownInLoop_always(w) == shutdownWrite(w)

shutdownInLoop(w) ==
  IF ~isWriting(w) THEN shutdownWrite(w) ELSE w

\* TcpConnection::sendInLoop, the end: the unwritten remainder of msg is
\* appended to the output buffer and write interest is enabled; the
\* high-water callback is queued if the append crosses the mark.
sendInLoop_append_noOldLen(w, msg, nwrote) ==
  LET remaining == Len(msg) - nwrote
      oldLen == Len(w.outputBuffer_)
      w4 == IF oldLen + remaining >= HighWaterMark /\ hasHighWater
              THEN Schedule(w, "highWaterMark") ELSE w
      w5 == [w4 EXCEPT !.outputBuffer_ = @ \o Drop(msg, nwrote)]
  IN  IF ~isWriting(w5) THEN enableWriting(w5) ELSE w5

sendInLoop_append(w, msg, nwrote) ==
  LET remaining == Len(msg) - nwrote
      oldLen == Len(w.outputBuffer_)
      w4 == IF /\ oldLen + remaining >= HighWaterMark
               /\ oldLen < HighWaterMark
               /\ hasHighWater
              THEN Schedule(w, "highWaterMark") ELSE w
      w5 == [w4 EXCEPT !.outputBuffer_ = @ \o Drop(msg, nwrote)]
  IN  IF ~isWriting(w5) THEN enableWriting(w5) ELSE w5

\* TcpConnection::sendInLoop past the state check: the direct write, tried
\* if the channel is not writing and the output buffer is empty, then the
\* append of what is left.  res is what sockets::write returns if called.
sendInLoop_write_always(w, msg, res) ==
  LET wrote == res.n >= 0
      nwrote == IF wrote THEN res.n ELSE 0
      remaining == Len(msg) - nwrote
      faultError == res.n < 0 /\ res.errno # "EWOULDBLOCK"
                      /\ res.errno \in {"EPIPE", "ECONNRESET"}
      w1 == NoteIO(w, "sendInLoop", res)
      w2 == IF wrote THEN [w1 EXCEPT !.wire = @ \o Take(msg, nwrote)] ELSE w1
      w3 == IF wrote /\ remaining = 0 /\ hasWriteComplete
              THEN Schedule(w2, "writeComplete") ELSE w2
  IN  IF ~faultError /\ remaining > 0
        THEN sendInLoop_append(w3, msg, nwrote) ELSE w3

sendInLoop_write(w, msg, res) ==
  LET direct == ~isWriting(w) /\ Len(w.outputBuffer_) = 0
      wrote == direct /\ res.n >= 0
      nwrote == IF wrote THEN res.n ELSE 0
      remaining == Len(msg) - nwrote
      faultError == direct /\ res.n < 0 /\ res.errno # "EWOULDBLOCK"
                      /\ res.errno \in {"EPIPE", "ECONNRESET"}
      w1 == IF direct THEN NoteIO(w, "sendInLoop", res) ELSE w
      w2 == IF wrote THEN [w1 EXCEPT !.wire = @ \o Take(msg, nwrote)] ELSE w1
      w3 == IF wrote /\ remaining = 0 /\ hasWriteComplete
              THEN Schedule(w2, "writeComplete") ELSE w2
  IN  IF ~faultError /\ remaining > 0
        THEN sendInLoop_append(w3, msg, nwrote) ELSE w3

\* TcpConnection::sendInLoop(data, len): gives up on a kDisconnected
\* connection.
sendInLoop_noStateCheck(w, msg, res) == sendInLoop_write(w, msg, res)

sendInLoop(w, msg, res) ==
  IF w.state_ = kDisconnected THEN w ELSE sendInLoop_write(w, msg, res)

\* TcpServer::removeConnection, the connection's closeCallback_: runs on the
\* worker thread and hands removeConnectionInLoop to the main loop.  It reads
\* the server's loop_: undefined once the server has been destroyed.
removeConnection(w, ub) ==
  LET w1 == [Fire(w, "close") EXCEPT !.closeCount = @ + 1,
                                     !.closeLog = Append(@, <<"close", w.self>>)]
  IN  IF serverAlive \/ ub = "proceed"
        THEN [w1 EXCEPT !.mainPending = Append(@, [op |-> "removeConnectionInLoop"])]
        ELSE [w1 EXCEPT !.aborted = TRUE]

\* TcpConnection::handleClose
handleClose(w, ub) ==
  LET a == CAssert(w, w.state_ \in {kConnected, kDisconnecting})
  IN  IF a.aborted
        THEN a
        ELSE
          LET w1 == [disableAll(setState(a, kDisconnected))
                       EXCEPT !.closeHandled = TRUE]
              w2 == connectionCallback_(w1)
          IN  removeConnection(w2, ub)

\* TcpConnection::handleError: logs SO_ERROR.
handleError(w) == w

\* TcpConnection::handleRead; n is what Buffer::readFd returns.
handleRead_noClose(w, n, ub) ==
  LET w1 == [NoteIO(w, "handleRead", [n |-> n, errno |-> "none"])
               EXCEPT !.eof = @ \/ (n = 0)]
  IN  IF n > 0 THEN messageCallback_(w1) ELSE handleError(w1)

handleRead(w, n, ub) ==
  LET w1 == [NoteIO(w, "handleRead", [n |-> n, errno |-> "none"])
               EXCEPT !.eof = @ \/ (n = 0)]
  IN  IF n > 0 THEN messageCallback_(w1)
      ELSE IF n = 0 THEN handleClose(w1, ub)
      ELSE handleError(w1)

\* TcpConnection::handleWrite; res is what sockets::write returns.
handleWrite_completeEveryWrite(w, res) ==
  IF isWriting(w)
    THEN
      LET w1 == NoteIO(w, "handleWrite", res)
      IN  IF res.n > 0
            THEN
              LET w2 == [w1 EXCEPT !.wire = @ \o Take(w.outputBuffer_, res.n),
                                   !.outputBuffer_ = Drop(@, res.n)]
                  w4 == IF hasWriteComplete
                          THEN Schedule(w2, "writeComplete") ELSE w2
              IN  IF Len(w2.outputBuffer_) = 0
                    THEN
                      LET w3 == disableWriting(w4)
                      IN  IF w3.state_ = kDisconnecting
                            THEN shutdownInLoop(w3) ELSE w3
                    ELSE w4
            ELSE w1
    ELSE w

handleWrite_noHalfClose(w, res) ==
  IF isWriting(w)
    THEN
      LET w1 == NoteIO(w, "handleWrite", res)
      IN  IF res.n > 0
            THEN
              LET w2 == [w1 EXCEPT !.wire = @ \o Take(w.outputBuffer_, res.n),
                                   !.outputBuffer_ = Drop(@, res.n)]
              IN  IF Len(w2.outputBuffer_) = 0
                    THEN
                      LET w3 == disableWriting(w2)
                      IN  IF hasWriteComplete
                            THEN Schedule(w3, "writeComplete") ELSE w3
                    ELSE w2
            ELSE w1
    ELSE w

handleWrite(w, res) ==
  IF isWriting(w)
    THEN
      LET w1 == NoteIO(w, "handleWrite", res)
      IN  IF res.n > 0
            THEN
              LET w2 == [w1 EXCEPT !.wire = @ \o Take(w.outputBuffer_, res.n),
                                   !.outputBuffer_ = Drop(@, res.n)]
              IN  IF Len(w2.outputBuffer_) = 0
                    THEN
                      LET w3 == disableWriting(w2)
                          w4 == IF hasWriteComplete
                                  THEN Schedule(w3, "writeComplete") ELSE w3
                      IN  IF w4.state_ = kDisconnecting
                            THEN shutdownInLoop(w4) ELSE w4
                    ELSE w2
            ELSE w1
    ELSE w

\* TcpConnection::forceCloseInLoop
forceCloseInLoop(w, ub) ==
  IF w.state_ \in {kConnected, kDisconnecting} THEN handleClose(w, ub) ELSE w

\* TcpConnection::forceClose called on the loop's own thread (the timer of
\* forceCloseWithDelay): check, set and enqueue without interleaving.
forceClose(w) ==
  IF w.state_ \in {kConnected, kDisconnecting}
    THEN queueInLoop(setState(w, kDisconnecting), [op |-> "forceCloseInLoop"])
    ELSE w

\* TcpConnection::startReadInLoop
startReadInLoop(w) ==
  IF ~w.reading_ \/ ~isReading(w)
    THEN [enableReading(w) EXCEPT !.reading_ = TRUE] ELSE w

\* TcpConnection::stopReadInLoop
stopReadInLoop(w) ==
  IF w.reading_ \/ isReading(w)
    THEN [disableReading(w) EXCEPT !.reading_ = FALSE] ELSE w

\* Channel::tie(shared_from_this()): the channel keeps a weak_ptr to the
\* connection.
tie(w) == [w EXCEPT !.tied_ = TRUE]

\* TcpConnection::connectEstablished
connectEstablished_noTie(w) ==
  LET a == CAssert(w, w.state_ = kConnecting)
  IN  IF a.aborted
        THEN a
        ELSE connectionCallback_(enableReading(setState(a, kConnected)))

connectEstablished(w) ==
  LET a == CAssert(w, w.state_ = kConnecting)
  IN  IF a.aborted
        THEN a
        ELSE connectionCallback_(enableReading(tie(setState(a, kConnected))))

\* TcpConnection::connectDestroyed
connectDestroyed(w) ==
  LET w1 == IF w.state_ = kConnected
              THEN connectionCallback_(
                     [disableAll(setState(w, kDisconnected))
                        EXCEPT !.closeHandled = TRUE])
              ELSE w
  IN  [remove(w1) EXCEPT !.destroyedRun = TRUE,
                         !.closeLog = Append(@, <<"destroyed", w.self>>)]

\* connections_[connName] = conn and connections_.erase(name): the running
\* thread changes the server's map.
insert(w) ==
  [w EXCEPT !.connections_ = TRUE,
            !.mapOff = IF w.self = MainThread THEN @ ELSE @ \cup {"insert"}]
erase(w) ==
  [w EXCEPT !.connections_ = FALSE,
            !.mapOff = IF w.self = MainThread THEN @ ELSE @ \cup {"erase"}]

\* TcpServer::newConnection, called by the acceptor on the main loop's
\* thread: the connection is constructed (kConnecting), put into the map,
\* and its connectEstablished handed to its worker loop.
newConnection(w) ==
  queueInLoop(insert([w EXCEPT !.nextConnId_ = @ + 1]),
              [op |-> "connectEstablished"])

\* TcpServer::removeConnectionInLoop, on the main loop's thread.  It erases
\* from the server's map: undefined once the server has been destroyed.
removeConnectionInLoop(w, ub) ==
  IF ~serverAlive /\ ub = "crash"
    THEN [w EXCEPT !.aborted = TRUE]
    ELSE
      LET n == IF w.connections_ THEN 1 ELSE 0
          e == erase(w)
          a == CAssert([e EXCEPT !.closeLog = IF n = 1 THEN Append(@, <<"erase", w.self>>) ELSE @],
                       n = 1)
      IN  IF a.aborted THEN a ELSE queueInLoop(a, [op |-> "connectDestroyed"])

\* Channel::handleEvent for one returned event set: close when hang-up comes
\* without read readiness, then error, then read, then write.
PollEvents == {"POLLIN", "POLLOUT", "POLLHUP", "POLLERR"}

\* The channel invokes the callback cb that was set for it.
Invoke(w, cb) == [w EXCEPT !.called = Append(@, cb)]

handleEvent_closeOnAnyHup(w, revents, n, res, ub) ==
  LET s == [w EXCEPT !.revents_ = revents]
      h == IF "POLLHUP" \in revents THEN [s EXCEPT !.eof = TRUE] ELSE s
      c == IF "POLLHUP" \in revents
             THEN handleClose(Invoke(h, "close"), ub) ELSE h
      e == IF ~c.aborted /\ "POLLERR" \in revents
             THEN handleError(Invoke(c, "error")) ELSE c
      r == IF ~e.aborted /\ "POLLIN" \in revents
             THEN handleRead(Invoke(e, "read"), n, ub) ELSE e
  IN  IF ~r.aborted /\ "POLLOUT" \in revents
        THEN handleWrite(Invoke(r, "write"), res) ELSE r

handleEvent(w, revents, n, res, ub) ==
  LET s == [w EXCEPT !.revents_ = revents]
      h == IF "POLLHUP" \in revents THEN [s EXCEPT !.eof = TRUE] ELSE s
      c == IF "POLLHUP" \in revents /\ "POLLIN" \notin revents
             THEN handleClose(Invoke(h, "close"), ub) ELSE h
      e == IF ~c.aborted /\ "POLLERR" \in revents
             THEN handleError(Invoke(c, "error")) ELSE c
      r == IF ~e.aborted /\ "POLLIN" \in revents
             THEN handleRead(Invoke(e, "read"), n, ub) ELSE e
  IN  IF ~r.aborted /\ "POLLOUT" \in revents
        THEN handleWrite(Invoke(r, "write"), res) ELSE r

\* ------------------------------------------------------------------ Init
Idle == [op |-> "none", stage |-> "idle"]

\* The message of the seq-th send(): len bytes, each tagged with its place.
Msg(seq, len) == [i \in 1..len |-> [seq |-> seq, i |-> i, len |-> len]]

\* The state after TcpServer::start: the server listens and has accepted no
\* connection yet.  The fields of the connection have the values its
\* constructor gives them (kConnecting, reading_).
Init ==
  /\ state_ = kConnecting
  /\ reading_ = TRUE
  /\ outputBuffer_ = << >>
  /\ events_ = {}
  /\ added = FALSE
  /\ wire = << >>
  /\ wrShut = FALSE
  /\ eof = FALSE
  /\ pendingFunctors_ = << >>
  /\ functors = << >>
  /\ phase = "poll"
  /\ timers = 0
  /\ mainPending = << >>
  /\ connections_ = FALSE
  /\ serverAlive = TRUE
  /\ aborted = FALSE
  /\ upc = Idle
  /\ calls = 0
  /\ nextSeq = 1
  /\ upCount = 0
  /\ downCount = 0
  /\ closeCount = 0
  /\ everDisconnected = FALSE
  /\ closeHandled = FALSE
  /\ destroyedRun = FALSE
  /\ late = {}
  /\ offLoop = {}
  /\ halfClose = {}
  /\ io = {}
  /\ nextConnId_ = 1
  /\ offThread = {}
  /\ mapOff = {}
  /\ closeLog = << >>
  /\ removeSaw = {}
  /\ tied_ = FALSE
  /\ revents_ = {}
  /\ called = << >>
  /\ upc2 = Idle
  /\ connMap = {}
  /\ srvNextId = 1
  /\ connState = [c \in 1..MaxConns |-> "none"]
  /\ loopQueue = [l \in {MainThread, "w1", "w2"} |-> << >>]
  /\ mapLog = {}
  /\ evAt = "constructed"
  /\ evPending = << >>
  /\ evFunctors = << >>
  /\ callingPendingFunctors_ = FALSE
  /\ wakeupFd_ = FALSE
  /\ quit_ = FALSE
  /\ otherAt = "idle"
  /\ nextTask = 1
  /\ ran = << >>
  /\ queued = {}
  /\ runLog = {}
  /\ swapped = << >>
  /\ drainRan = << >>
  /\ sinceSwap = {}
  /\ quitLog = {}
  /\ idleFd_ = "placeholder"
  /\ acAt = "idle"
  /\ acQueue = 0
  /\ acConns = 0
  /\ acOthers = 0
  /\ acRemoved = FALSE
  /\ acLog = {}
  /\ started_ = 0
  /\ stAt = [th \in {MainThread, WorkerThread, UserThread} |-> "out"]
  /\ stCalls = [th \in {MainThread, WorkerThread, UserThread} |-> 0]
  /\ poolStarts = 0
  /\ listens = 0
  /\ stPending = 0
  /\ listenning_ = FALSE
  /\ numThreads_ = 0
  /\ plStarted = FALSE
  /\ loops_ = << >>
  /\ next_ = 0
  /\ picks = << >>
  /\ buffer_ = [i \in 1..(kCheapPrepend + InitialSize) |-> 0]
  /\ readerIndex_ = kCheapPrepend
  /\ writerIndex_ = kCheapPrepend
  /\ bufAborted = FALSE
  /\ bufOps = 0
  /\ bufLast = [op |-> "Buffer", len |-> InitialSize,
                before |-> [buffer_ |-> [i \in 1..(kCheapPrepend + InitialSize) |-> 0],
                            readerIndex_ |-> kCheapPrepend,
                            writerIndex_ |-> kCheapPrepend,
                            aborted |-> FALSE]]
  /\ host = "any"
  /\ intQueue = << >>
  /\ intMixed = FALSE
  /\ intResult = << >>
  /\ queue_ = << >>
  /\ running_ = FALSE
  /\ maxQueueSize_ = 0
  /\ threads_ = {}
  /\ tpAt = [th \in {"t1", "t2", "p1", "p2", "owner"} |-> "out"]
  /\ tpSeen = [th \in {"t1", "t2"} |-> FALSE]
  /\ tpRuns = [th \in {"p1", "p2"} |-> 0]
  /\ tpLog = {}
  /\ currentBuffer_ = <<0>>
  /\ nextBuffer_ = <<0>>
  /\ buffers_ = << >>
  /\ newBuffer1 = << >>
  /\ newBuffer2 = << >>
  /\ buffersToWrite = << >>
  /\ output = 0
  /\ logging_running_ = FALSE
  /\ alAt = "out"
  /\ alAborted = FALSE
  /\ alAppends = 0
  /\ alLog = {}

\* ---------------------------------------------------------- the user thread
\* The user thread is in no call: it has made none, or its last call has
\* returned (a call that the check of state_ refused leaves what it saw).
Free == upc.stage \in {"idle", "refused"}
Refused(op) == [op |-> op, stage |-> "refused", saw |-> state_]

\* The user thread got its TcpConnectionPtr in the connection callback.
UserIdle == ~aborted /\ Free /\ calls < MaxCalls /\ upCount > 0

\* Whoever constructed the connection holds a TcpConnectionPtr from then on,
\* before connectEstablished has run.
HolderIdle == ~aborted /\ Free /\ calls < MaxCalls /\ nextConnId_ > 1
UserAt(op, stage) == ~aborted /\ upc.op = op /\ upc.stage = stage

\* A step of the user thread that leaves the loop's queue alone.
UserStep(touched) ==
  /\ Commit(BeginOn(World, UserThread))
  /\ offLoop' = offLoop \cup touched
  /\ UNCHANGED << functors, phase, serverAlive >>

\* A step of the user thread that hands f to EventLoop::runInLoop or
\* queueInLoop of the worker loop: not on the loop's thread, so f is queued.
UserQueue(f) ==
  /\ Commit(queueInLoop(BeginOn(World, UserThread), f))
  /\ upc' = Idle
  /\ UNCHANGED << functors, phase, timers, serverAlive, offLoop >>

\* TcpConnection::send(message): the check of state_ ...
Send_Check(len) ==
  /\ UserIdle
  /\ UserStep({<<"state_", "read">>})
  /\ calls' = calls + 1
  /\ IF state_ = kConnected
       THEN upc' = [op |-> "send", stage |-> "run", len |-> len]
       ELSE upc' = Idle
  /\ UNCHANGED << nextSeq, timers >>

\* ... and loop_->runInLoop(sendInLoop, message.as_string()): the messages
\* are numbered in the order of their enqueue.
Send_Run ==
  /\ UserAt("send", "run")
  /\ UserQueue([op |-> "sendInLoop", msg |-> Msg(nextSeq, upc.len)])
  /\ nextSeq' = nextSeq + 1
  /\ UNCHANGED calls

\* send(message) of the second user thread: the same two steps.
Send2_Check(len) ==
  /\ ~aborted
  /\ upCount > 0
  /\ upc2.stage = "idle"
  /\ Commit([BeginOn(World, UserThread) EXCEPT
              !.upc2 = IF state_ = kConnected
                         THEN [op |-> "send", stage |-> "run", len |-> len]
                         ELSE [op |-> "send", stage |-> "returned"]])
  /\ offLoop' = offLoop \cup {<<"state_", "read">>}
  /\ UNCHANGED << functors, phase, serverAlive, upc, calls, nextSeq, timers >>

Send2_Run ==
  /\ ~aborted
  /\ upc2.stage = "run"
  /\ Commit(queueInLoop([BeginOn(World, UserThread) EXCEPT
                          !.upc2 = [op |-> "send", stage |-> "returned"]],
                        [op |-> "sendInLoop", msg |-> Msg(nextSeq, upc2.len)]))
  /\ nextSeq' = nextSeq + 1
  /\ UNCHANGED << functors, phase, timers, serverAlive, offLoop, upc, calls >>

\* TcpConnection::shutdown: the check of state_, setState(kDisconnecting),
\* and loop_->runInLoop(shutdownInLoop).
Shutdown_Check ==
  /\ UserIdle
  /\ UserStep({<<"state_", "read">>})
  /\ calls' = calls + 1
  /\ upc' = IF state_ = kConnected
              THEN [op |-> "shutdown", stage |-> "set"] ELSE Idle
  /\ UNCHANGED << nextSeq, timers >>

UserSet(op) ==
  /\ Commit(setState(BeginOn(World, UserThread), kDisconnecting))
  /\ offLoop' = offLoop \cup {<<"state_", "write">>}
  /\ upc' = [op |-> op, stage |-> "run"]
  /\ UNCHANGED << functors, phase, timers, serverAlive, calls, nextSeq >>

Shutdown_Set == UserAt("shutdown", "set") /\ UserSet("shutdown")

Shutdown_Run ==
  /\ UserAt("shutdown", "run")
  /\ UserQueue([op |-> "shutdownInLoop"])
  /\ UNCHANGED << calls, nextSeq >>

\* TcpConnection::forceClose: the check, setState(kDisconnecting), and
\* loop_->queueInLoop(forceCloseInLoop).
ForceClose_Check ==
  /\ HolderIdle
  /\ UserStep({<<"state_", "read">>})
  /\ calls' = calls + 1
  /\ upc' = IF state_ \in {kConnected, kDisconnecting}
              THEN [op |-> "forceClose", stage |-> "set"]
              ELSE Refused("forceClose")
  /\ UNCHANGED << nextSeq, timers >>

ForceClose_Set == UserAt("forceClose", "set") /\ UserSet("forceClose")

ForceClose_Run ==
  /\ UserAt("forceClose", "run")
  /\ UserQueue([op |-> "forceCloseInLoop"])
  /\ UNCHANGED << calls, nextSeq >>

\* TcpConnection::forceCloseWithDelay: the check, setState(kDisconnecting),
\* and loop_->runAfter(seconds, weak forceClose).
ForceCloseWithDelay_Check ==
  /\ UserIdle
  /\ UserStep({<<"state_", "read">>})
  /\ calls' = calls + 1
  /\ upc' = IF state_ \in {kConnected, kDisconnecting}
              THEN [op |-> "forceCloseWithDelay", stage |-> "set"] ELSE Idle
  /\ UNCHANGED << nextSeq, timers >>

ForceCloseWithDelay_Set ==
  UserAt("forceCloseWithDelay", "set") /\ UserSet("forceCloseWithDelay")

ForceCloseWithDelay_Run ==
  /\ UserAt("forceCloseWithDelay", "run")
  /\ Commit(BeginOn(World, UserThread))
  /\ timers' = timers + 1
  /\ upc' = Idle
  /\ UNCHANGED << functors, phase, serverAlive, calls, nextSeq, offLoop >>

\* TcpConnection::startRead and stopRead: loop_->runInLoop(...InLoop).
StartRead_inCaller ==
  /\ UserIdle
  /\ Commit(startReadInLoop(BeginOn(World, UserThread)))
  /\ upc' = Idle
  /\ calls' = calls + 1
  /\ UNCHANGED << functors, phase, timers, serverAlive, offLoop, nextSeq >>

StartRead ==
  /\ UserIdle
  /\ UserQueue([op |-> "startReadInLoop"])
  /\ calls' = calls + 1
  /\ UNCHANGED nextSeq

StopRead ==
  /\ UserIdle
  /\ UserQueue([op |-> "stopReadInLoop"])
  /\ calls' = calls + 1
  /\ UNCHANGED nextSeq

\* -------------------------------------------------------- the worker loop
\* EventLoop::loop: poll, dispatch the active channels, doPendingFunctors.
LoopAt(p) == ~aborted /\ phase = p

Rest == << upc, calls, nextSeq, offLoop, serverAlive >>

\* The poller returns the connection's channel with revents: read and write
\* readiness only if asked for, hang-up and error whenever the channel is
\* watched.  Channel::handleEvent dispatches it: a tied channel locks its
\* weak_ptr into a guard, calls the handlers, and the guard is released when
\* handleEvent returns (Loop_EndDispatch).
Revents ==
  { r \in SUBSET PollEvents :
      /\ r # {}
      /\ "POLLIN" \in r => kReadEvent \in events_
      /\ "POLLOUT" \in r => kWriteEvent \in events_ }

\* What Buffer::readFd and sockets::write return in this dispatch, and what
\* a call into the server does; one value where the call is not made.
\* Once the peer is gone no later read returns data.
ReadResults(revents) ==
  IF "POLLIN" \in revents THEN (IF eof THEN {-1, 0} ELSE {-1, 0, 1}) ELSE {0}
WriteReady(revents) ==
  IF "POLLOUT" \in revents
    THEN WriteResults(World, Len(outputBuffer_))
    ELSE {[n |-> 0, errno |-> "none"]}
UB == IF serverAlive THEN {"proceed"} ELSE UBOutcomes

Loop_HandleEvent ==
  /\ LoopAt("poll")
  /\ added /\ events_ # {}
  /\ \E revents \in Revents :
       \E n \in ReadResults(revents), res \in WriteReady(revents), ub \in UB :
         Commit(handleEvent(Begin(World), revents, n, res, ub))
  /\ phase' = "dispatching"
  /\ UNCHANGED << functors, timers, Rest >>

Loop_EndDispatch ==
  /\ LoopAt("dispatching")
  /\ Commit(Begin(World))
  /\ phase' = "dispatched"
  /\ UNCHANGED << functors, timers, Rest >>

\* The timer of forceCloseWithDelay expires: the weak callback finds the
\* connection alive and calls forceClose on the loop's thread.
Loop_Timer ==
  /\ LoopAt("poll")
  /\ timers > 0
  /\ timers' = timers - 1
  /\ Commit(forceClose(Begin(World)))
  /\ phase' = "dispatched"
  /\ UNCHANGED << functors, Rest >>

\* EventLoop::doPendingFunctors: swap the list out under the mutex.
Loop_DoPendingFunctors ==
  /\ ~aborted /\ phase \in {"poll", "dispatched"}
  /\ functors' = pendingFunctors_
  /\ Commit([Begin(World) EXCEPT !.pendingFunctors_ = << >>])
  /\ phase' = IF pendingFunctors_ = << >> THEN "poll" ELSE "calling"
  /\ UNCHANGED << timers, Rest >>

\* ... and call the functors in order.
Calling(op) == LoopAt("calling") /\ functors # << >> /\ Head(functors).op = op

Called ==
  /\ functors' = Tail(functors)
  /\ phase' = IF Tail(functors) = << >> THEN "poll" ELSE "calling"
  /\ UNCHANGED << timers, Rest >>

Run_connectEstablished ==
  /\ Calling("connectEstablished")
  /\ Commit(connectEstablished(Begin(World)))
  /\ Called

Run_sendInLoop ==
  /\ Calling("sendInLoop")
  /\ \E res \in WriteResults(World, Len(Head(functors).msg)) :
       Commit(sendInLoop(Begin(World), Head(functors).msg, res))
  /\ Called

Run_shutdownInLoop ==
  /\ Calling("shutdownInLoop")
  /\ Commit(shutdownInLoop(Begin(World)))
  /\ Called

Run_forceCloseInLoop ==
  /\ Calling("forceCloseInLoop")
  /\ \E ub \in UB :
       Commit(forceCloseInLoop(Begin(World), ub))
  /\ Called

Run_startReadInLoop ==
  /\ Calling("startReadInLoop")
  /\ Commit(startReadInLoop(Begin(World)))
  /\ Called

Run_stopReadInLoop ==
  /\ Calling("stopReadInLoop")
  /\ Commit(stopReadInLoop(Begin(World)))
  /\ Called

Run_connectDestroyed ==
  /\ Calling("connectDestroyed")
  /\ Commit(connectDestroyed(Begin(World)))
  /\ Called

\* The queued writeCompleteCallback_ and highWaterMarkCallback_ are called.
Run_writeComplete ==
  /\ Calling("writeComplete")
  /\ Commit(Fire(Begin(World), "writeComplete"))
  /\ Called

Run_highWaterMark ==
  /\ Calling("highWaterMark")
  /\ Commit(Fire(Begin(World), "highWaterMark"))
  /\ Called

\* ---------------------------------------------------------- the main loop
\* The acceptor hands the server its first connection; the model follows
\* this one connection.
Main_newConnection ==
  /\ ~aborted
  /\ serverAlive
  /\ nextConnId_ = 1
  /\ Commit(newConnection(BeginOn(World, MainThread)))
  /\ UNCHANGED << functors, phase, timers, Rest >>

\* The main loop calls the removeConnectionInLoop a worker handed to it.
Main_removeConnectionInLoop ==
  /\ ~aborted
  /\ mainPending # << >>
  /\ \E ub \in UB :
       Commit(removeConnectionInLoop(
                [BeginOn(World, MainThread)
                   EXCEPT !.mainPending = Tail(@)], ub))
  /\ UNCHANGED << functors, phase, timers, Rest >>

\* TcpServer::~TcpServer on the main loop's thread: every connection in the
\* map is reset and its connectDestroyed handed to its worker loop.
Main_ServerDestroy ==
  /\ ~aborted
  /\ serverAlive
  /\ serverAlive' = FALSE
  /\ LET w == BeginOn(World, MainThread)
     IN  Commit(IF connections_
                  THEN queueInLoop(erase(w), [op |-> "connectDestroyed"])
                  ELSE w)
  /\ UNCHANGED << functors, phase, timers, upc, calls, nextSeq, offLoop >>

\* -------------------------------------------------------------------- Next
Next ==
  \/ \E len \in 0..MaxMsgLen : Send_Check(len)
  \/ Send_Run
  \/ Shutdown_Check
  \/ Shutdown_Set
  \/ Shutdown_Run
  \/ ForceClose_Check
  \/ ForceClose_Set
  \/ ForceClose_Run
  \/ ForceCloseWithDelay_Check
  \/ ForceCloseWithDelay_Set
  \/ ForceCloseWithDelay_Run
  \/ StartRead
  \/ StopRead
  \/ Loop_HandleEvent
  \/ Loop_EndDispatch
  \/ Loop_Timer
  \/ Loop_DoPendingFunctors
  \/ Run_connectEstablished
  \/ Run_sendInLoop
  \/ Run_shutdownInLoop
  \/ Run_forceCloseInLoop
  \/ Run_startReadInLoop
  \/ Run_stopReadInLoop
  \/ Run_connectDestroyed
  \/ Run_writeComplete
  \/ Run_highWaterMark
  \/ Main_newConnection
  \/ Main_removeConnectionInLoop
  \/ Main_ServerDestroy

Spec == Init /\ [][Next]_vars

\* The connection with two user threads that call send() and shutdown():
\* the second one calls send() while the first is in any of its calls.
TwoNext ==
  \/ \E len \in 0..MaxMsgLen : Send_Check(len)
  \/ Send_Run
  \/ Shutdown_Check
  \/ Shutdown_Set
  \/ Shutdown_Run
  \/ \E len \in 1..MaxMsgLen : Send2_Check(len)
  \/ Send2_Run
  \/ Loop_HandleEvent
  \/ Loop_EndDispatch
  \/ Loop_DoPendingFunctors
  \/ Run_connectEstablished
  \/ Run_sendInLoop
  \/ Run_shutdownInLoop
  \/ Run_connectDestroyed
  \/ Run_writeComplete
  \/ Run_highWaterMark
  \/ Main_newConnection
  \/ Main_removeConnectionInLoop

TwoSpec == Init /\ [][TwoNext]_vars

\* ---------------------------------------------------------------- fairness
\* The worker's thread keeps running loop(): poll returns (an event, the
\* wakeup descriptor, the poll timeout), the pending functors are swapped out
\* and called one after the other.
WorkerRuns ==
  \/ Loop_EndDispatch
  \/ Loop_DoPendingFunctors
  \/ Run_connectEstablished
  \/ Run_sendInLoop
  \/ Run_shutdownInLoop
  \/ Run_forceCloseInLoop
  \/ Run_startReadInLoop
  \/ Run_stopReadInLoop
  \/ Run_connectDestroyed
  \/ Run_writeComplete
  \/ Run_highWaterMark

\* The main loop's thread keeps running loop() as well.
MainRuns == Main_removeConnectionInLoop

\* A call the user thread has entered runs to its end.
UserRuns ==
  \/ Send_Run
  \/ Shutdown_Set
  \/ Shutdown_Run
  \/ ForceClose_Set
  \/ ForceClose_Run
  \/ ForceCloseWithDelay_Set
  \/ ForceCloseWithDelay_Run

\* The socket keeps becoming writable while the channel asks for it, and a
\* write-ready event writes at least one byte.
WriteProgress ==
  /\ LoopAt("poll")
  /\ added /\ isWriting(World)
  /\ \E k \in 1..Len(outputBuffer_) :
       /\ [n |-> k, errno |-> "none"] \in WriteReady({"POLLOUT"})
       /\ Commit(handleEvent(Begin(World), {"POLLOUT"}, 0,
                             [n |-> k, errno |-> "none"], "proceed"))
  /\ phase' = "dispatching"
  /\ UNCHANGED << functors, timers, Rest >>

\* The threads are scheduled, pending timers expire, and the socket takes
\* what is written to it.
LiveSpec ==
  /\ Spec
  /\ WF_vars(WorkerRuns)
  /\ WF_vars(MainRuns)
  /\ WF_vars(UserRuns)
  /\ SF_vars(Loop_Timer)
  /\ SF_vars(WriteProgress)

\* ------------------------------------------ the server's map, many workers
\* TcpServer with a pool of two worker loops and up to MaxConns connections:
\* who changes connections_, and on which thread.  A loop is named by its
\* thread.
Workers == {"w1", "w2"}
Loops == {MainThread} \cup Workers
Conns == 1..MaxConns

\* EventLoopThreadPool::getNextLoop: round robin over the worker loops.
getNextLoop(id) == IF id % 2 = 1 THEN "w1" ELSE "w2"

\* The server's fields as one record; self is the running thread.
Srv ==
  [ connMap |-> connMap, srvNextId |-> srvNextId, connState |-> connState,
    loopQueue |-> loopQueue, mapLog |-> mapLog, self |-> MainThread ]
SrvOn(t) == [Srv EXCEPT !.self = t]
SrvCommit(s) ==
  \E c \in {s} :
    /\ connMap' = c.connMap
    /\ srvNextId' = c.srvNextId
    /\ connState' = c.connState
    /\ loopQueue' = c.loopQueue
    /\ mapLog' = c.mapLog
    /\ UNCHANGED << connVars, evVars, acVars, stVars, plVars, bufVars, tpVars, alVars >>

\* connections_[connName] = conn; connections_.erase(conn->name())
Srv_insert(s, c) ==
  [s EXCEPT !.connMap = @ \cup {c},
            !.mapLog = @ \cup {[op |-> "insert", conn |-> c, thread |-> s.self]}]
Srv_erase(s, c) ==
  [s EXCEPT !.connMap = @ \ {c},
            !.mapLog = @ \cup {[op |-> "erase", conn |-> c, thread |-> s.self]}]

\* EventLoop::queueInLoop of loop l
Srv_queueInLoop(s, l, f) == [s EXCEPT !.loopQueue[l] = Append(@, f)]

\* TcpServer::newConnection: runs in the acceptor's read callback on the main
\* loop; ioLoop->runInLoop(connectEstablished) is called off ioLoop's thread.
Srv_newConnection(s) ==
  LET id == s.srvNextId
      ioLoop == getNextLoop(id)
      s1 == [s EXCEPT !.srvNextId = @ + 1, !.connState[id] = kConnecting]
  IN  Srv_queueInLoop(Srv_insert(s1, id), ioLoop,
                      [op |-> "connectEstablished", conn |-> id])

\* TcpServer::removeConnectionInLoop
Srv_removeConnectionInLoop(s, c) ==
  Srv_queueInLoop(Srv_erase(s, c), getNextLoop(c),
                  [op |-> "connectDestroyed", conn |-> c])

\* TcpServer::removeConnection, the close callback:
\* loop_->runInLoop(removeConnectionInLoop) runs it in the caller on the main
\* loop's thread and queues it to the main loop on any other.
Srv_removeConnection_inCaller(s, c) == Srv_removeConnectionInLoop(s, c)

Srv_removeConnection(s, c) ==
  IF s.self = MainThread
    THEN Srv_removeConnectionInLoop(s, c)
    ELSE Srv_queueInLoop(s, MainThread,
                         [op |-> "removeConnectionInLoop", conn |-> c])

\* The acceptor's channel is readable: Acceptor::handleRead accepts and
\* calls newConnection.
Map_newConnection ==
  /\ srvNextId <= MaxConns
  /\ SrvCommit(Srv_newConnection(SrvOn(MainThread)))

\* Loop l calls the functor at the head of its list.
Map_Head(l, op) == loopQueue[l] # << >> /\ Head(loopQueue[l]).op = op
Map_Pop(s, l) == [s EXCEPT !.loopQueue[l] = Tail(@)]

Map_connectEstablished(l) ==
  /\ Map_Head(l, "connectEstablished")
  /\ SrvCommit([Map_Pop(SrvOn(l), l)
                  EXCEPT !.connState[Head(loopQueue[l]).conn] = kConnected])

\* A worker detects the close of one of its connections: handleClose sets
\* kDisconnected and calls the connection callback ...
Map_handleClose(c) ==
  /\ connState[c] = kConnected
  /\ SrvCommit([SrvOn(getNextLoop(c)) EXCEPT !.connState[c] = "closing"])

\* ... and then closeCallback_, which is TcpServer::removeConnection.
Map_closeCallback(c) ==
  /\ connState[c] = "closing"
  /\ SrvCommit(Srv_removeConnection(
                 [SrvOn(getNextLoop(c)) EXCEPT !.connState[c] = kDisconnected],
                 c))

Map_removeConnectionInLoop ==
  /\ Map_Head(MainThread, "removeConnectionInLoop")
  /\ SrvCommit(Srv_removeConnectionInLoop(
                 Map_Pop(SrvOn(MainThread), MainThread),
                 Head(loopQueue[MainThread]).conn))

Map_connectDestroyed(l) ==
  /\ Map_Head(l, "connectDestroyed")
  /\ SrvCommit([Map_Pop(SrvOn(l), l)
                  EXCEPT !.connState[Head(loopQueue[l]).conn] = "destroyed"])

MapNext ==
  \/ Map_newConnection
  \/ \E l \in Workers : Map_connectEstablished(l)
  \/ \E c \in Conns : Map_handleClose(c)
  \/ \E c \in Conns : Map_closeCallback(c)
  \/ Map_removeConnectionInLoop
  \/ \E l \in Workers : Map_connectDestroyed(l)

MapSpec == Init /\ [][MapNext]_vars

\* ------------------------------------------------------ one EventLoop
\* An EventLoop, its owner thread (WorkerThread) inside loop(), and another
\* thread (UserThread) that hands it tasks.  The owner thread hands the loop
\* tasks from where it runs user code inside loop(): a channel's handler, or
\* a task.  poll returns when a descriptor is ready or its timeout expires;
\* nothing obliges the timeout to expire.
\*
\* A task is [id, kind]: when called, a "plain" task only runs, a "queues"
\* task calls queueInLoop with a new plain task, a "runs" task calls
\* runInLoop with one.
TaskKinds == {"plain", "queues", "runs"}

Ev ==
  [ evAt |-> evAt, evPending |-> evPending, evFunctors |-> evFunctors,
    callingPendingFunctors_ |-> callingPendingFunctors_,
    wakeupFd_ |-> wakeupFd_, quit_ |-> quit_, otherAt |-> otherAt,
    nextTask |-> nextTask, ran |-> ran, queued |-> queued, runLog |-> runLog,
    swapped |-> swapped, drainRan |-> drainRan, sinceSwap |-> sinceSwap,
    quitLog |-> quitLog,
    self |-> WorkerThread ]
EvOn(t) == [Ev EXCEPT !.self = t]
EvCommit(l) ==
  \E c \in {l} :
    /\ evAt' = c.evAt
    /\ evPending' = c.evPending
    /\ evFunctors' = c.evFunctors
    /\ callingPendingFunctors_' = c.callingPendingFunctors_
    /\ wakeupFd_' = c.wakeupFd_
    /\ quit_' = c.quit_
    /\ otherAt' = c.otherAt
    /\ nextTask' = c.nextTask
    /\ ran' = c.ran
    /\ queued' = c.queued
    /\ runLog' = c.runLog
    /\ swapped' = c.swapped
    /\ drainRan' = c.drainRan
    /\ sinceSwap' = c.sinceSwap
    /\ quitLog' = c.quitLog
    /\ UNCHANGED << connVars, mapVars, acVars, stVars, plVars, bufVars, tpVars, alVars >>

\* When a call reaches the loop, as far as the claims tell cases apart: the
\* loop is blocked in poll with no descriptor ready and the caller is another
\* thread; the loop is calling its pending functors and the caller is one of
\* them; any other time.
Ev_when(l) ==
  IF l.self # WorkerThread /\ l.evAt = "poll" /\ ~l.wakeupFd_ THEN "blocked"
  ELSE IF l.self = WorkerThread /\ l.evAt = "calling" THEN "draining"
  ELSE "else"

\* The body of task id runs on the running thread.
Ev_exec(l, id) ==
  [l EXCEPT !.ran = Append(@, [id |-> id, thread |-> l.self, at |-> l.evAt])]

\* EventLoop::wakeup: write to wakeupFd_.
wakeup(l) == [l EXCEPT !.wakeupFd_ = TRUE]

\* EventLoop::queueInLoop(cb): push under the mutex, then wake the loop up if
\* called off the loop's thread or while the loop calls its pending
\* functors.  The other thread's wakeup is a step of its own (Other_wakeup).
Ev_queueInLoop_wakeOffThreadOnly(l, kind) ==
  LET t == [id |-> l.nextTask, kind |-> kind]
      l1 == [l EXCEPT !.evPending = Append(@, t),
                      !.nextTask = @ + 1,
                      !.sinceSwap = @ \cup {t.id},
                      !.queued = @ \cup {[id |-> t.id, thread |-> l.self,
                                          when |-> Ev_when(l)]}]
  IN  IF l.self # WorkerThread
        THEN [l1 EXCEPT !.otherAt = "wakeup"]
        ELSE l1

Ev_queueInLoop(l, kind) ==
  LET t == [id |-> l.nextTask, kind |-> kind]
      l1 == [l EXCEPT !.evPending = Append(@, t),
                      !.nextTask = @ + 1,
                      !.sinceSwap = @ \cup {t.id},
                      !.queued = @ \cup {[id |-> t.id, thread |-> l.self,
                                          when |-> Ev_when(l)]}]
  IN  IF l.self # WorkerThread
        THEN [l1 EXCEPT !.otherAt = "wakeup"]
        ELSE IF l.callingPendingFunctors_ THEN wakeup(l1) ELSE l1

\* EventLoop::runInLoop(cb) with a plain task: run in the caller on the
\* loop's thread, queueInLoop on any other.  The call is logged with what it
\* had done to the task when it returned.
HasId(q, id) == \E k \in DOMAIN q : q[k].id = id

Ev_runInLoop_alwaysQueue(l) ==
  LET id == l.nextTask
      r == Ev_queueInLoop(l, "plain")
  IN  [r EXCEPT !.runLog = @ \cup {[id |-> id, thread |-> l.self,
                                     ranInCall |-> HasId(r.ran, id),
                                     queuedInCall |-> HasId(r.evPending, id)]}]

Ev_runInLoop(l) ==
  LET id == l.nextTask
      r == IF l.self = WorkerThread
             THEN Ev_exec([l EXCEPT !.nextTask = @ + 1], id)
             ELSE Ev_queueInLoop(l, "plain")
  IN  [r EXCEPT !.runLog = @ \cup {[id |-> id, thread |-> l.self,
                                     ranInCall |-> HasId(r.ran, id),
                                     queuedInCall |-> HasId(r.evPending, id)]}]

\* doPendingFunctors calls functor t.
Ev_call(l, t) ==
  LET l1 == Ev_exec([l EXCEPT !.drainRan = Append(@, t.id)], t.id)
  IN  IF l1.nextTask > MaxTasks THEN l1
      ELSE IF t.kind = "queues" THEN Ev_queueInLoop(l1, "plain")
      ELSE IF t.kind = "runs" THEN Ev_runInLoop(l1)
      ELSE l1

\* The other thread calls queueInLoop, runInLoop, and later writes the
\* wakeup descriptor; it calls quit.  It hands the loop no task once loop()
\* has returned.
Other_queueInLoop(kind) ==
  /\ otherAt = "idle" /\ nextTask <= MaxTasks /\ evAt # "exited"
  /\ EvCommit(Ev_queueInLoop(EvOn(UserThread), kind))

Other_runInLoop ==
  /\ otherAt = "idle" /\ nextTask <= MaxTasks /\ evAt # "exited"
  /\ EvCommit(Ev_runInLoop(EvOn(UserThread)))

Other_wakeup ==
  /\ otherAt = "wakeup"
  /\ EvCommit([wakeup(EvOn(UserThread)) EXCEPT !.otherAt = "idle"])

\* EventLoop::quit: quit_ = true, and wakeup() if called off the loop's
\* thread (the other thread's wakeup is its next step, Other_wakeup).
quit_noWakeup(l) ==
  [l EXCEPT !.quit_ = TRUE,
            !.quitLog = @ \cup {[thread |-> l.self, when |-> Ev_when(l)]}]

quit(l) ==
  [l EXCEPT !.quit_ = TRUE,
            !.quitLog = @ \cup {[thread |-> l.self, when |-> Ev_when(l)]},
            !.otherAt = IF l.self # WorkerThread THEN "wakeup" ELSE @]

\* The other thread calls quit on the running loop.
Other_quit ==
  /\ otherAt = "idle" /\ evAt \notin {"constructed", "exited"} /\ ~quit_
  /\ EvCommit(quit(EvOn(UserThread)))

\* The owner thread calls loop() and blocks in poll.
Ev_loop ==
  /\ evAt = "constructed"
  /\ EvCommit([Ev EXCEPT !.evAt = "poll"])

\* poll returns the wakeup channel: EventLoop::handleRead reads wakeupFd_.
Ev_PollWakeup ==
  /\ evAt = "poll" /\ wakeupFd_
  /\ EvCommit([Ev EXCEPT !.wakeupFd_ = FALSE, !.evAt = "handled"])

\* poll returns for another reason: its timeout ("none"), or a channel whose
\* handler calls queueInLoop, runInLoop or quit.  A readable wakeupFd_ is
\* returned and read as well.
EventActs == {"none", "queueInLoop", "runInLoop", "quit"}
Ev_PollEvent(act) ==
  /\ evAt = "poll"
  /\ act \in {"queueInLoop", "runInLoop"} => nextTask <= MaxTasks
  /\ act = "quit" => ~quit_
  /\ LET l == [Ev EXCEPT !.wakeupFd_ = FALSE, !.evAt = "handling"]
         h == IF act = "queueInLoop" THEN Ev_queueInLoop(l, "plain")
              ELSE IF act = "runInLoop" THEN Ev_runInLoop(l)
              ELSE IF act = "quit" THEN quit(l)
              ELSE l
     IN  EvCommit([h EXCEPT !.evAt = "handled"])

\* EventLoop::doPendingFunctors: swap the list out under the mutex ...
Ev_doPendingFunctors ==
  /\ evAt = "handled"
  /\ EvCommit([Ev EXCEPT !.callingPendingFunctors_ = TRUE,
                         !.evFunctors = evPending,
                         !.evPending = << >>,
                         !.swapped = [k \in DOMAIN evPending |-> evPending[k].id],
                         !.drainRan = << >>,
                         !.sinceSwap = {},
                         !.evAt = "calling"])

\* ... call the functors in order ...
Ev_CallFunctor_untilEmpty ==
  /\ evAt = "calling" /\ evFunctors # << >>
  /\ EvCommit(Ev_call([Ev EXCEPT !.evFunctors = Tail(@) \o evPending,
                                 !.evPending = << >>],
                      Head(evFunctors)))

Ev_CallFunctor ==
  /\ evAt = "calling" /\ evFunctors # << >>
  /\ EvCommit(Ev_call([Ev EXCEPT !.evFunctors = Tail(@)], Head(evFunctors)))

\* ... and return to loop(), which polls again unless quit_ is set.
Ev_EndFunctors ==
  /\ evAt = "calling" /\ evFunctors = << >>
  /\ EvCommit([Ev EXCEPT !.callingPendingFunctors_ = FALSE,
                         !.evAt = IF quit_ THEN "exited" ELSE "poll"])

EvNext ==
  \/ \E kind \in TaskKinds : Other_queueInLoop(kind)
  \/ Other_runInLoop
  \/ Other_wakeup
  \/ Other_quit
  \/ Ev_loop
  \/ Ev_PollWakeup
  \/ \E act \in EventActs : Ev_PollEvent(act)
  \/ Ev_doPendingFunctors
  \/ Ev_CallFunctor
  \/ Ev_EndFunctors

LoopSpec == Init /\ [][EvNext]_vars

\* The owner thread runs: it calls loop(), poll returns when the wakeup
\* descriptor is readable, and doPendingFunctors runs to its end.  The other
\* thread finishes the queueInLoop it has entered.
LoopLiveSpec ==
  /\ LoopSpec
  /\ WF_vars(Ev_loop)
  /\ WF_vars(Ev_PollWakeup)
  /\ WF_vars(Ev_doPendingFunctors)
  /\ WF_vars(Ev_CallFunctor)
  /\ WF_vars(Ev_EndFunctors)
  /\ WF_vars(Other_wakeup)

\* ------------------------------------------------------------ the acceptor
\* Acceptor::handleRead on the main loop's thread, the listen queue, and the
\* descriptor table of the process, which the acceptor shares with the other
\* threads.  The process may hold MaxFds descriptors besides the listening
\* socket.  idleFd_ is "placeholder" (/dev/null), "conn" (the connection the
\* second accept returned) or "none" (-1).
AcFree ==
  MaxFds - acConns - acOthers - (IF idleFd_ = "none" THEN 0 ELSE 1)

AcUnchanged == UNCHANGED << connVars, mapVars, evVars, stVars, plVars, bufVars, tpVars, alVars >>

\* A client connects: the kernel queues the connection.
Ac_Arrive ==
  /\ acQueue < MaxBacklog
  /\ acQueue' = acQueue + 1
  /\ UNCHANGED << idleFd_, acAt, acConns, acOthers, acRemoved, acLog >>
  /\ AcUnchanged

\* The listening socket is readable: handleRead calls accept.  With a
\* descriptor free it hands the connection to newConnectionCallback_; with
\* none, accept fails with EMFILE and handleRead closes idleFd_.
Ac_handleRead ==
  /\ acAt = "idle" /\ acQueue > 0
  /\ IF AcFree > 0
       THEN /\ acQueue' = acQueue - 1
            /\ acConns' = acConns + 1
            /\ acLog' = acLog \cup {[emfile |-> FALSE, removed |-> TRUE,
                                      idle |-> idleFd_]}
            /\ UNCHANGED << idleFd_, acAt, acRemoved >>
       ELSE /\ idleFd_' = "none"
            /\ acAt' = "released"
            /\ acRemoved' = FALSE
            /\ UNCHANGED << acQueue, acConns, acLog >>
  /\ UNCHANGED acOthers
  /\ AcUnchanged

\* idleFd_ = ::accept(acceptSocket_.fd(), NULL, NULL); ::close(idleFd_):
\* the accept succeeds if a descriptor is free, and the close frees it again.
Ac_reaccept ==
  /\ acAt = "released"
  /\ IF AcFree > 0 /\ acQueue > 0
       THEN acQueue' = acQueue - 1 /\ acRemoved' = TRUE
       ELSE UNCHANGED << acQueue, acRemoved >>
  /\ idleFd_' = "none"
  /\ acAt' = "drained"
  /\ UNCHANGED << acConns, acOthers, acLog >>
  /\ AcUnchanged

\* idleFd_ = ::open("/dev/null", O_RDONLY | O_CLOEXEC): -1 if no descriptor
\* is free.  handleRead returns.
Ac_reopen ==
  /\ acAt = "drained"
  /\ idleFd_' = IF AcFree > 0 THEN "placeholder" ELSE "none"
  /\ acAt' = "idle"
  /\ acLog' = acLog \cup {[emfile |-> TRUE, removed |-> acRemoved,
                            idle |-> idleFd_']}
  /\ acRemoved' = FALSE
  /\ UNCHANGED << acQueue, acConns, acOthers >>
  /\ AcUnchanged

\* Another thread of the process opens a descriptor, or closes one.
Proc_open ==
  /\ AcFree > 0
  /\ acOthers' = acOthers + 1
  /\ UNCHANGED << idleFd_, acAt, acQueue, acConns, acRemoved, acLog >>
  /\ AcUnchanged

Proc_close ==
  /\ acOthers > 0
  /\ acOthers' = acOthers - 1
  /\ UNCHANGED << idleFd_, acAt, acQueue, acConns, acRemoved, acLog >>
  /\ AcUnchanged

\* An accepted connection is closed and destroyed: its descriptor returns.
Ac_connClosed ==
  /\ acConns > 0
  /\ acConns' = acConns - 1
  /\ UNCHANGED << idleFd_, acAt, acQueue, acOthers, acRemoved, acLog >>
  /\ AcUnchanged

AcNext ==
  \/ Ac_Arrive
  \/ Ac_handleRead
  \/ Ac_reaccept
  \/ Ac_reopen
  \/ Proc_open
  \/ Proc_close
  \/ Ac_connClosed

AcceptSpec == Init /\ [][AcNext]_vars

\* ------------------------------------------------------ TcpServer::start
\* start() called by the main loop's thread and by two other threads, each
\* any number of times.  A thread is out of start(), or has won the
\* getAndSet ("won"), has started the pool ("pooled"), has passed the
\* assertion ("asserted").
Starters == {MainThread, WorkerThread, UserThread}

StUnchanged == UNCHANGED << connVars, mapVars, evVars, acVars, plVars, bufVars, tpVars, alVars >>

\* AtomicInt32::getAndSet(newValue): the old value, and the value stored.
getAndSet_keep(v, newValue) == [old |-> v, new |-> v]

getAndSet(v, newValue) == [old |-> v, new |-> newValue]

\* if (started_.getAndSet(1) == 0)
St_getAndSet(th) ==
  /\ stAt[th] = "out" /\ stCalls[th] < MaxStarts
  /\ stCalls' = [stCalls EXCEPT ![th] = @ + 1]
  /\ LET g == getAndSet(started_, 1)
     IN  /\ started_' = g.new
         /\ stAt' = [stAt EXCEPT ![th] = IF g.old = 0 THEN "won" ELSE "out"]
  /\ UNCHANGED << poolStarts, listens, stPending, listenning_ >>
  /\ StUnchanged

\* threadPool_->start(threadInitCallback_)
St_poolStart(th) ==
  /\ stAt[th] = "won"
  /\ poolStarts' = poolStarts + 1
  /\ stAt' = [stAt EXCEPT ![th] = "pooled"]
  /\ UNCHANGED << started_, stCalls, listens, stPending, listenning_ >>
  /\ StUnchanged

\* assert(!acceptor_->listenning()); a failed assertion stops the thread.
St_assert(th) ==
  /\ stAt[th] = "pooled"
  /\ stAt' = [stAt EXCEPT ![th] = IF listenning_ THEN "aborted" ELSE "asserted"]
  /\ UNCHANGED << started_, stCalls, poolStarts, listens, stPending,
                  listenning_ >>
  /\ StUnchanged

\* loop_->runInLoop(Acceptor::listen): run in the caller on the main loop's
\* thread, queued to the main loop on any other.
St_runInLoop(th) ==
  /\ stAt[th] = "asserted"
  /\ listens' = listens + 1
  /\ IF th = MainThread
       THEN listenning_' = TRUE /\ UNCHANGED stPending
       ELSE stPending' = stPending + 1 /\ UNCHANGED listenning_
  /\ stAt' = [stAt EXCEPT ![th] = "out"]
  /\ UNCHANGED << started_, stCalls, poolStarts >>
  /\ StUnchanged

\* The main loop, its thread not being inside start(), calls a queued
\* Acceptor::listen.
St_listen ==
  /\ stPending > 0 /\ stAt[MainThread] = "out"
  /\ stPending' = stPending - 1
  /\ listenning_' = TRUE
  /\ UNCHANGED << started_, stAt, stCalls, poolStarts, listens >>
  /\ StUnchanged

StartNext ==
  \/ \E th \in Starters : St_getAndSet(th)
  \/ \E th \in Starters : St_poolStart(th)
  \/ \E th \in Starters : St_assert(th)
  \/ \E th \in Starters : St_runInLoop(th)
  \/ St_listen

StartSpec == Init /\ [][StartNext]_vars

\* ------------------------------------------------- EventLoopThreadPool
\* The pool of a server: setThreadNum before start, start creates the worker
\* loops, newConnection asks getNextLoop for the loop of each connection.
\* A loop is the base loop or the i-th worker created, i from 0.
baseLoop_ == << "base", 0 >>
WorkerLoop(i) == << "worker", i >>

PlUnchanged == UNCHANGED << connVars, mapVars, evVars, acVars, stVars, bufVars, tpVars, alVars >>

\* TcpServer::setThreadNum -> EventLoopThreadPool::setThreadNum
Pl_setThreadNum(n) ==
  /\ ~plStarted
  /\ numThreads_' = n
  /\ UNCHANGED << plStarted, loops_, next_, picks >>
  /\ PlUnchanged

\* EventLoopThreadPool::start: numThreads_ threads, each with its loop.
Pl_start ==
  /\ ~plStarted
  /\ plStarted' = TRUE
  /\ loops_' = [i \in 1..numThreads_ |-> WorkerLoop(i - 1)]
  /\ UNCHANGED << numThreads_, next_, picks >>
  /\ PlUnchanged

\* EventLoopThreadPool::getNextLoop: the base loop if there is no worker,
\* else loops_[next_], and next_ moves on, back to 0 past the last.
getNextLoopOf_stuck(ls, nx) ==
  IF ls = << >>
    THEN [loop |-> baseLoop_, next |-> nx]
    ELSE [loop |-> ls[nx + 1], next |-> nx]

getNextLoopOf(ls, nx) ==
  IF ls = << >>
    THEN [loop |-> baseLoop_, next |-> nx]
    ELSE [loop |-> ls[nx + 1],
          next |-> IF nx + 1 >= Len(ls) THEN 0 ELSE nx + 1]

\* TcpServer::newConnection: EventLoop* ioLoop = threadPool_->getNextLoop()
Pl_getNextLoop ==
  /\ plStarted /\ Len(picks) < MaxPicks
  /\ LET g == getNextLoopOf(loops_, next_)
     IN  /\ picks' = Append(picks, g.loop)
         /\ next_' = g.next
  /\ UNCHANGED << numThreads_, plStarted, loops_ >>
  /\ PlUnchanged

PoolNext ==
  \/ \E n \in 0..MaxThreads : Pl_setThreadNum(n)
  \/ Pl_start
  \/ Pl_getNextLoop

PoolSpec == Init /\ [][PoolNext]_vars

\* ================================================================ Buffer
\* One Buffer and the operations of its class.  A Buffer is the record of
\* its fields; an operation is an operator from the Buffer before to the
\* Buffer after.  Index i of the vector is buffer_[i + 1].

\* Buffer::Buffer(initialSize): a zeroed vector, both indices at the headroom.
Buffer(initialSize) ==
  [buffer_ |-> [i \in 1..(kCheapPrepend + initialSize) |-> 0],
   readerIndex_ |-> kCheapPrepend,
   writerIndex_ |-> kCheapPrepend,
   aborted |-> FALSE]

\* assert(cond) inside Buffer.
BAssert(b, cond) == IF cond THEN b ELSE [b EXCEPT !.aborted = TRUE]

readableBytes(b) == b.writerIndex_ - b.readerIndex_

writableBytes(b) == Len(b.buffer_) - b.writerIndex_

prependableBytes(b) == b.readerIndex_

\* [peek(), beginWrite()): the readable content.
peek(b) == SubSeq(b.buffer_, b.readerIndex_ + 1, b.writerIndex_)

\* std::copy(data, data + len, begin() + at)
copy(buf, data, at) ==
  [i \in 1..Len(buf) |->
     IF at < i /\ i <= at + Len(data) THEN data[i - at] ELSE buf[i]]

\* std::vector<char>::resize(n): the bytes kept, the new ones zero.
resize(buf, n) == [i \in 1..n |-> IF i <= Len(buf) THEN buf[i] ELSE 0]

retrieveAll(b) ==
  [b EXCEPT !.readerIndex_ = kCheapPrepend, !.writerIndex_ = kCheapPrepend]

retrieve_advanceOnly(b, len) ==
  LET a == BAssert(b, len <= readableBytes(b))
  IN  [a EXCEPT !.readerIndex_ = @ + len]

retrieve(b, len) ==
  LET a == BAssert(b, len <= readableBytes(b))
  IN  IF len < readableBytes(a)
      THEN [a EXCEPT !.readerIndex_ = @ + len]
      ELSE retrieveAll(a)

\* retrieveUntil(end), end an index of the vector.
retrieveUntil(b, end) ==
  LET a == BAssert(BAssert(b, b.readerIndex_ <= end), end <= b.writerIndex_)
  IN  retrieve(a, end - a.readerIndex_)

\* retrieveInt8/16/32/64: retrieve(sizeof(intN_t)).
retrieveInt(b, size) == retrieve(b, size)

\* readInt8/16/32/64: peekIntN asserts that the bytes are there, then
\* retrieveIntN.
readInt(b, size) ==
  retrieveInt(BAssert(b, readableBytes(b) >= size), size)

\* retrieveAsString(len): the string it returns and the Buffer it leaves.
retrieveAsString(b, len) ==
  LET a == BAssert(b, len <= readableBytes(b))
  IN  [result |-> SubSeq(a.buffer_, a.readerIndex_ + 1, a.readerIndex_ + len),
       buffer |-> retrieve(a, len)]

makeSpace_resizeOnEqual(b, len) ==
  IF writableBytes(b) + prependableBytes(b) <= len + kCheapPrepend
  THEN [b EXCEPT !.buffer_ = resize(@, b.writerIndex_ + len)]
  ELSE LET readable == readableBytes(b)
       IN  [b EXCEPT !.buffer_ = copy(@, peek(b), kCheapPrepend),
                     !.readerIndex_ = kCheapPrepend,
                     !.writerIndex_ = kCheapPrepend + readable]

makeSpace(b, len) ==
  IF writableBytes(b) + prependableBytes(b) < len + kCheapPrepend
  THEN [b EXCEPT !.buffer_ = resize(@, b.writerIndex_ + len)]
  ELSE LET a == BAssert(b, kCheapPrepend < b.readerIndex_)
           readable == readableBytes(a)
           m == [a EXCEPT !.buffer_ = copy(@, peek(a), kCheapPrepend),
                          !.readerIndex_ = kCheapPrepend,
                          !.writerIndex_ = kCheapPrepend + readable]
       IN  BAssert(m, readable = readableBytes(m))

ensureWritableBytes_always(b, len) ==
  LET a == makeSpace(b, len)
  IN  BAssert(a, writableBytes(a) >= len)

ensureWritableBytes(b, len) ==
  LET a == IF writableBytes(b) < len THEN makeSpace(b, len) ELSE b
  IN  BAssert(a, writableBytes(a) >= len)

hasWritten(b, len) ==
  LET a == BAssert(b, len <= writableBytes(b))
  IN  [a EXCEPT !.writerIndex_ = @ + len]

append(b, data) ==
  LET a == ensureWritableBytes(b, Len(data))
  IN  hasWritten([a EXCEPT !.buffer_ = copy(@, data, a.writerIndex_)], Len(data))

unwrite(b, len) ==
  LET a == BAssert(b, len <= readableBytes(b))
  IN  [a EXCEPT !.writerIndex_ = @ - len]

prepend(b, data) ==
  LET a == BAssert(b, Len(data) <= prependableBytes(b))
      r == a.readerIndex_ - Len(data)
  IN  [a EXCEPT !.readerIndex_ = r, !.buffer_ = copy(@, data, r)]

\* swap(rhs): what this Buffer and rhs are afterwards.
swap(b, rhs) == [this |-> rhs, rhs |-> b]

shrink(b, reserve) ==
  LET other == Buffer(InitialSize)
      o1 == ensureWritableBytes(other, readableBytes(b) + reserve)
      o2 == append(o1, peek(b))
  IN  [swap(b, o2).this EXCEPT !.aborted = b.aborted \/ o2.aborted]

readFd_noAppend(b, n, data) ==
  LET writable == writableBytes(b)
  IN  IF n < 0 THEN b
      ELSE IF n <= writable
      THEN [b EXCEPT !.buffer_ = copy(@, data, b.writerIndex_),
                     !.writerIndex_ = @ + n]
      ELSE [b EXCEPT !.buffer_ = copy(@, SubSeq(data, 1, writable), b.writerIndex_),
                     !.writerIndex_ = Len(b.buffer_)]

readFd_advanceOnly(b, n, data) ==
  IF n < 0 THEN b
  ELSE [b EXCEPT !.buffer_ = copy(@, data, b.writerIndex_),
                 !.writerIndex_ = @ + n]

\* readFd: readv returned n after filling the writable bytes first and
\* extrabuf next; data is what it read, n < 0 is its failure.
readFd(b, n, data) ==
  LET writable == writableBytes(b)
  IN  IF n < 0 THEN b
      ELSE IF n <= writable
      THEN [b EXCEPT !.buffer_ = copy(@, data, b.writerIndex_),
                     !.writerIndex_ = @ + n]
      ELSE LET a == [b EXCEPT !.buffer_ = copy(@, SubSeq(data, 1, writable), b.writerIndex_),
                              !.writerIndex_ = Len(b.buffer_)]
           IN  append(a, SubSeq(data, writable + 1, n))

\* ------------------------------------------------- the integer helpers
\* An N-byte integer is the sequence of its N bytes, the most significant
\* first.  In the memory of a little-endian host they lie reversed.
Reverse(s) == [i \in 1..Len(s) |-> s[Len(s) + 1 - i]]

Hosts == {"little", "big"}

\* The bytes of x as they lie in memory, and the integer that lies there.
InMemory(x, h) == IF h = "little" THEN Reverse(x) ELSE x

FromMemory(bytes, h) == IF h = "little" THEN Reverse(bytes) ELSE bytes

\* sockets::hostToNetworkN and networkToHostN: the bytes swapped on a
\* little-endian host, the integer itself on a big-endian one.
hostToNetwork(x, h) == IF h = "little" THEN Reverse(x) ELSE x

networkToHost(x, h) == IF h = "little" THEN Reverse(x) ELSE x

appendInt_hostOrder(b, x, h) == append(b, InMemory(x, h))

\* appendInt64/32/16: append(&beN, sizeof beN); appendInt8: append(&x, 1).
appendInt(b, x, h) ==
  IF Len(x) = 1
  THEN append(b, InMemory(x, h))
  ELSE append(b, InMemory(hostToNetwork(x, h), h))

\* peekInt64/32/16: memcpy(&beN, peek(), sizeof beN), networkToHostN(beN);
\* peekInt8: *peek().  The Buffer is const: only the assertion can act.
peekInt(b, size, h) ==
  LET a == BAssert(b, readableBytes(b) >= size)
      be == FromMemory(SubSeq(a.buffer_, a.readerIndex_ + 1, a.readerIndex_ + size), h)
  IN  [result |-> IF size = 1 THEN be ELSE networkToHost(be, h),
       buffer |-> a]

\* ---------------------------------------------------------- its callers
\* The Buffer as it stands.
Buf ==
  [buffer_ |-> buffer_, readerIndex_ |-> readerIndex_,
   writerIndex_ |-> writerIndex_, aborted |-> bufAborted]

BufUnchanged == UNCHANGED << connVars, mapVars, evVars, acVars, stVars, plVars, tpVars, alVars >>

\* The n bytes a caller hands over: 1, 2, ..., n.
Data(n) == [i \in 1..n |-> i]

\* The largest vector the model lets a Buffer have.
MaxSize == kCheapPrepend + InitialSize + MaxGrow

\* An operation has returned b: the fields are b's, the operation is noted.
BufStep(b, op, len) ==
  /\ ~bufAborted
  /\ bufOps < MaxBufOps
  /\ Len(b.buffer_) <= MaxSize
  /\ bufOps' = bufOps + 1
  /\ buffer_' = b.buffer_
  /\ readerIndex_' = b.readerIndex_
  /\ writerIndex_' = b.writerIndex_
  /\ bufAborted' = b.aborted
  /\ bufLast' = [op |-> op, len |-> len, before |-> Buf]
  /\ BufUnchanged

\* The operations that leave the readable content as it is.
ContentKept == {"ensureWritableBytes", "shrink"}

\* An operation that is no integer helper has returned b.
BufCommit(b, op, len) ==
  /\ BufStep(b, op, len)
  /\ host' = host
  /\ intQueue' = intQueue
  /\ intMixed' = (intMixed \/ op \notin ContentKept)
  /\ intResult' = << >>

Buf_append(n) == BufCommit(append(Buf, Data(n)), "append", n)

Buf_ensureWritableBytes(n) ==
  BufCommit(ensureWritableBytes(Buf, n), "ensureWritableBytes", n)

\* The caller wrote n bytes at beginWrite() and says so.
Buf_hasWritten(n) ==
  /\ n <= writableBytes(Buf)
  /\ BufCommit(hasWritten([Buf EXCEPT !.buffer_ = copy(@, Data(n), writerIndex_)], n),
               "hasWritten", n)

Buf_unwrite(n) ==
  /\ n <= readableBytes(Buf)
  /\ BufCommit(unwrite(Buf, n), "unwrite", n)

Buf_retrieve(n) ==
  /\ n <= readableBytes(Buf)
  /\ BufCommit(retrieve(Buf, n), "retrieve", n)

Buf_retrieveUntil(end) ==
  /\ readerIndex_ <= end
  /\ end <= writerIndex_
  /\ BufCommit(retrieveUntil(Buf, end), "retrieveUntil", end - readerIndex_)

Buf_retrieveAll == BufCommit(retrieveAll(Buf), "retrieveAll", readableBytes(Buf))

Buf_retrieveAsString(n) ==
  /\ n <= readableBytes(Buf)
  /\ BufCommit(retrieveAsString(Buf, n).buffer, "retrieveAsString", n)

IntSizes == {1, 2, 4, 8}

Buf_readInt(size) ==
  /\ readableBytes(Buf) >= size
  /\ BufCommit(readInt(Buf, size), "readInt", size)

\* ------------------------------------------- callers of the helpers
\* The integers the callers append: 0x0102..0N and -2.
IntValues(size) ==
  { [i \in 1..size |-> i], [i \in 1..size |-> IF i = size THEN 254 ELSE 255] }

\* An integer helper has returned b and, for a peek or a read, the value res.
IntCommit(b, op, len, h, q, mixed, res) ==
  /\ BufStep(b, op, len)
  /\ host \in {"any", h}
  /\ host' = h
  /\ intQueue' = q
  /\ intMixed' = mixed
  /\ intResult' = res

\* The integer a readIntN of this size is to return: the oldest appended,
\* when the content is integers only and the oldest has this size.
Matching(size) ==
  IF ~intMixed /\ intQueue # << >> /\ Len(Head(intQueue)) = size
  THEN << Head(intQueue) >>
  ELSE << >>

Int_append(h, size, x) ==
  IntCommit(appendInt(Buf, x, h), "appendInt", size, h, Append(intQueue, x),
            intMixed, << >>)

Int_peek(h, size) ==
  /\ readableBytes(Buf) >= size
  /\ IntCommit(peekInt(Buf, size, h).buffer, "peekInt", size, h, intQueue, intMixed,
               << [got |-> peekInt(Buf, size, h).result, want |-> Matching(size)] >>)

\* readIntN: result = peekIntN(); retrieveIntN(); return result.
Int_read(h, size) ==
  /\ readableBytes(Buf) >= size
  /\ IntCommit(readInt(Buf, size), "readInt", size, h,
               IF Matching(size) = << >> THEN << >> ELSE Tail(intQueue),
               intMixed \/ (Matching(size) = << >> /\ readableBytes(Buf) > size),
               << [got |-> peekInt(Buf, size, h).result, want |-> Matching(size)] >>)

Buf_prepend(n) ==
  /\ n <= prependableBytes(Buf)
  /\ BufCommit(prepend(Buf, Data(n)), "prepend", n)

Buf_shrink(reserve) == BufCommit(shrink(Buf, reserve), "shrink", reserve)

\* The Buffers swap is handed: constructed, appended to, retrieved from.
Others ==
  UNION { { retrieve(append(Buffer(InitialSize), [i \in 1..n |-> 3]), k) : k \in 0..n } :
           n \in 0..MaxLen }

Buf_swap(rhs) == BufCommit(swap(Buf, rhs).this, "swap", readableBytes(rhs))

\* readv is given the writable bytes, and extrabuf too when they are fewer
\* than extrabuf: it returns no more than the two hold.
Buf_readFd(n) ==
  LET writable == writableBytes(Buf)
      iovcnt == IF writable < ExtrabufSize THEN 2 ELSE 1
      room == IF iovcnt = 2 THEN writable + ExtrabufSize ELSE writable
  IN  /\ n <= room
      /\ BufCommit(readFd(Buf, n, Data(IF n < 0 THEN 0 ELSE n)), "readFd", n)

BufNext ==
  \/ \E n \in 0..MaxLen : Buf_append(n)
  \/ \E n \in 0..MaxLen : Buf_ensureWritableBytes(n)
  \/ \E n \in 0..MaxLen : Buf_hasWritten(n)
  \/ \E n \in 0..MaxLen : Buf_unwrite(n)
  \/ \E n \in 0..MaxLen : Buf_retrieve(n)
  \/ \E end \in 0..MaxSize : Buf_retrieveUntil(end)
  \/ Buf_retrieveAll
  \/ \E n \in 0..MaxLen : Buf_retrieveAsString(n)
  \/ \E size \in IntSizes : Buf_readInt(size)
  \/ \E n \in 0..MaxLen : Buf_prepend(n)
  \/ \E reserve \in 0..MaxLen : Buf_shrink(reserve)
  \/ \E rhs \in Others : Buf_swap(rhs)
  \/ \E n \in -1..(MaxLen + ExtrabufSize) : Buf_readFd(n)

BufferSpec == Init /\ [][BufNext]_vars

\* The integer helpers, interleaved with what makes the vector grow or the
\* content move.
IntNext ==
  \/ \E h \in Hosts, size \in IntSizes : \E x \in IntValues(size) : Int_append(h, size, x)
  \/ \E h \in Hosts, size \in IntSizes : Int_peek(h, size)
  \/ \E h \in Hosts, size \in IntSizes : Int_read(h, size)
  \/ \E n \in 0..MaxLen : Buf_ensureWritableBytes(n)
  \/ \E reserve \in 0..MaxLen : Buf_shrink(reserve)

IntSpec == Init /\ [][IntNext]_vars

\* ============================================================ ThreadPool
\* One ThreadPool, up to two of its threads, two producers that call run(),
\* and the owner, who sets the pool up and calls stop().  What a thread does
\* between locking mutex_ and unlocking it or waiting on a condition is one
\* step.  A thread in a wait is "notFull.wait" or "notEmpty.wait" until a
\* notify or a spurious wakeup makes it "woken": it then locks mutex_ again.
PoolThreads == {"t1", "t2"}
Producers == {"p1", "p2"}
Owner == "owner"

\* The pool's fields and the places of the threads, as one record.
Tp ==
  [queue_ |-> queue_, running_ |-> running_, maxQueueSize_ |-> maxQueueSize_,
   threads_ |-> threads_, at |-> tpAt, seen |-> tpSeen, log |-> tpLog]

TpUnchanged == UNCHANGED << connVars, mapVars, evVars, acVars, stVars, plVars, bufVars, alVars >>

TpCommit(t) ==
  \E c \in {t} :
    /\ queue_' = c.queue_
    /\ running_' = c.running_
    /\ maxQueueSize_' = c.maxQueueSize_
    /\ threads_' = c.threads_
    /\ tpAt' = c.at
    /\ tpSeen' = c.seen
    /\ tpLog' = c.log
    /\ TpUnchanged

\* The threads that wait on a condition.
Waiting(t, cond) == {th \in DOMAIN t.at : t.at[th] = cond}

\* Condition::notify: one of the waiting threads, wake, is woken; nobody
\* when none waits.
notify(t, cond, wake) ==
  IF wake \in Waiting(t, cond) THEN [t EXCEPT !.at[wake] = "woken"] ELSE t

\* Condition::notifyAll
notifyAll(t, cond) ==
  [t EXCEPT !.at = [th \in DOMAIN t.at |-> IF t.at[th] = cond THEN "woken" ELSE t.at[th]]]

\* The choices notify has.
Wakes(t, cond) == IF Waiting(t, cond) = {} THEN {"nobody"} ELSE Waiting(t, cond)

isFull(t) == t.maxQueueSize_ > 0 /\ Len(t.queue_) >= t.maxQueueSize_

\* ThreadPool::run with mutex_ held, on entry or back from notFull_.wait():
\* the loop on isFull, the push, the notify.
run_noRecheck(t, th, wake) ==
  IF isFull(t) /\ t.at[th] # "woken"
  THEN [t EXCEPT !.at[th] = "notFull.wait", !.log = @ \cup {<<"waited", th>>}]
  ELSE LET a == [t EXCEPT !.queue_ = Append(@, th),
                          !.log = IF t.at[th] = "woken" THEN @ \cup {<<"pushed late", th>>} ELSE @,
                          !.at[th] = "out"]
       IN  notify(a, "notEmpty.wait", wake)

run(t, th, wake) ==
  IF isFull(t)
  THEN [t EXCEPT !.at[th] = "notFull.wait", !.log = @ \cup {<<"waited", th>>}]
  ELSE LET a == [t EXCEPT !.queue_ = Append(@, th),
                          !.log = IF t.at[th] = "woken" THEN @ \cup {<<"pushed late", th>>} ELSE @,
                          !.at[th] = "out"]
       IN  notify(a, "notEmpty.wait", wake)

\* ThreadPool::take with mutex_ held, on entry or back from
\* notEmpty_.wait(): the loop, the pop, the notify.  The thread leaves with
\* a task ("task") or with an empty one ("loop").
take(t, th, wake) ==
  LET s == [t EXCEPT !.seen[th] = t.running_]
  IN  IF s.queue_ = << >> /\ s.running_
      THEN [s EXCEPT !.at[th] = "notEmpty.wait"]
      ELSE IF s.queue_ # << >>
      THEN LET a == [s EXCEPT !.queue_ = Tail(@), !.at[th] = "task"]
           IN  IF a.maxQueueSize_ > 0 THEN notify(a, "notFull.wait", wake) ELSE a
      ELSE [s EXCEPT !.at[th] = "loop"]

\* ThreadPool::stop, its locked part.
stop(t) ==
  [notifyAll([t EXCEPT !.running_ = FALSE], "notEmpty.wait") EXCEPT !.at[Owner] = "join"]

\* ------------------------------------------------------------ the owner
Tp_setMaxQueueSize(n) ==
  /\ tpAt[Owner] = "out"
  /\ maxQueueSize_ # n
  /\ TpCommit([Tp EXCEPT !.maxQueueSize_ = n])
  /\ UNCHANGED tpRuns

\* ThreadPool::start(numThreads): the threads are created and started.
Tp_start(n) ==
  /\ tpAt[Owner] = "out"
  /\ TpCommit([Tp EXCEPT !.running_ = TRUE,
                         !.threads_ = {th \in PoolThreads : (th = "t1") \/ n = 2},
                         !.seen = [th \in DOMAIN @ |-> TRUE],
                         !.at = [th \in DOMAIN @ |->
                                   IF th = Owner THEN "started"
                                   ELSE IF th = "t1" \/ (th = "t2" /\ n = 2) THEN "loop"
                                   ELSE @[th]]])
  /\ UNCHANGED tpRuns

Tp_stop ==
  /\ tpAt[Owner] = "started"
  /\ TpCommit(stop(Tp))
  /\ UNCHANGED tpRuns

\* thr->join() for every thread of the pool, then stop() returns.
Tp_join ==
  /\ tpAt[Owner] = "join"
  /\ \A th \in threads_ : tpAt[th] = "exited"
  /\ TpCommit([Tp EXCEPT !.at[Owner] = "returned"])
  /\ UNCHANGED tpRuns

\* -------------------------------------------------------- the producers
\* run(task): the pool has threads (threads_ is not empty), the producer
\* locks mutex_.
Tp_run(p) ==
  /\ tpAt[Owner] # "out"
  /\ tpAt[p] = "out"
  /\ tpRuns[p] < MaxRuns
  /\ \E wake \in Wakes(Tp, "notEmpty.wait") : TpCommit(run(Tp, p, wake))
  /\ tpRuns' = [tpRuns EXCEPT ![p] = @ + 1]

\* Back from notFull_.wait() with mutex_ held.
Tp_runWoken(p) ==
  /\ p \in Producers
  /\ tpAt[p] = "woken"
  /\ \E wake \in Wakes(Tp, "notEmpty.wait") : TpCommit(run(Tp, p, wake))
  /\ UNCHANGED tpRuns

\* ------------------------------------------------------ the pool threads
\* runInThread: while (running_), read without mutex_ while stop() may
\* write it: the thread reads what memory holds or what it last saw.
Tp_loop(th) ==
  /\ tpAt[th] = "loop"
  /\ \E r \in {running_, tpSeen[th]} :
       TpCommit([Tp EXCEPT !.at[th] = IF r THEN "take" ELSE "exited"])
  /\ UNCHANGED tpRuns

Tp_take(th) ==
  /\ th \in PoolThreads
  /\ tpAt[th] \in {"take", "woken"}
  /\ \E wake \in Wakes(Tp, "notFull.wait") : TpCommit(take(Tp, th, wake))
  /\ UNCHANGED tpRuns

\* task()
Tp_task(th) ==
  /\ tpAt[th] = "task"
  /\ TpCommit([Tp EXCEPT !.at[th] = "loop"])
  /\ UNCHANGED tpRuns

\* pthread_cond_wait returns without a notify.
Tp_spurious(th) ==
  /\ tpAt[th] \in {"notFull.wait", "notEmpty.wait"}
  /\ TpCommit([Tp EXCEPT !.at[th] = "woken"])
  /\ UNCHANGED tpRuns

TpNext ==
  \/ \E n \in 0..MaxQueueSize : Tp_setMaxQueueSize(n)
  \/ \E n \in 1..2 : Tp_start(n)
  \/ Tp_stop
  \/ Tp_join
  \/ \E p \in Producers : Tp_run(p)
  \/ \E p \in Producers : Tp_runWoken(p)
  \/ \E th \in PoolThreads : Tp_loop(th)
  \/ \E th \in PoolThreads : Tp_take(th)
  \/ \E th \in PoolThreads : Tp_task(th)
  \/ \E th \in PoolThreads \cup Producers : Tp_spurious(th)

ThreadPoolSpec == Init /\ [][TpNext]_vars

\* The threads are scheduled: a pool thread goes on in runInThread and
\* take(), a woken producer locks mutex_ again, the owner's join returns
\* once the threads have exited.  Nobody has to call run() or stop(), and no
\* wait has to return without a notify.
ThreadPoolLiveSpec ==
  /\ ThreadPoolSpec
  /\ \A th \in PoolThreads :
       WF_vars(Tp_loop(th)) /\ WF_vars(Tp_take(th)) /\ WF_vars(Tp_task(th))
  /\ \A p \in Producers : WF_vars(Tp_runWoken(p))
  /\ WF_vars(Tp_join)

\* =========================================================== AsyncLogging
\* One AsyncLogging: the front end, where any thread calls append(), and
\* the back end, the thread that runs threadFunc.  A unique_ptr<Buffer> is
\* << >> when it holds nothing and <<n>> when it holds a Buffer with n bytes
\* written; BufferSize stands for kLargeBuffer.  What a thread does with
\* mutex_ held is one step.
NullPtr == << >>
NewBuffer == <<0>>

\* FixedBuffer::length, avail, append
length(b) == b[1]
avail(b) == BufferSize - length(b)
FixedBuffer_append(b, len) == IF avail(b) > len THEN <<length(b) + len>> ELSE b

RECURSIVE Total(_)
Total(bs) == IF bs = << >> THEN 0 ELSE length(Head(bs)) + Total(Tail(bs))

\* The object's fields, the locals of threadFunc and the place of its thread.
Al ==
  [currentBuffer_ |-> currentBuffer_, nextBuffer_ |-> nextBuffer_, buffers_ |-> buffers_,
   newBuffer1 |-> newBuffer1, newBuffer2 |-> newBuffer2, buffersToWrite |-> buffersToWrite,
   output |-> output, at |-> alAt, aborted |-> alAborted, log |-> alLog]

AlUnchanged ==
  UNCHANGED << connVars, mapVars, evVars, acVars, stVars, plVars, bufVars, tpVars >>

AlCommit(a) ==
  \E c \in {a} :
    /\ currentBuffer_' = c.currentBuffer_
    /\ nextBuffer_' = c.nextBuffer_
    /\ buffers_' = c.buffers_
    /\ newBuffer1' = c.newBuffer1
    /\ newBuffer2' = c.newBuffer2
    /\ buffersToWrite' = c.buffersToWrite
    /\ output' = c.output
    /\ alAt' = c.at
    /\ alAborted' = c.aborted
    /\ alLog' = c.log
    /\ AlUnchanged

\* assert(cond): the process aborts when cond is false.
AlAssert(a, cond) == IF cond THEN a ELSE [a EXCEPT !.aborted = TRUE, !.at = "aborted"]

\* AsyncLogging::append, all of it under mutex_.  cond_.notify() ends the
\* back end's waitForSeconds, which also ends by itself: Al_wake.
AsyncLogging_append(a, len) ==
  IF avail(a.currentBuffer_) > len
  THEN [a EXCEPT !.currentBuffer_ = FixedBuffer_append(@, len)]
  ELSE LET pushed == [a EXCEPT !.buffers_ = Append(@, a.currentBuffer_)]
           moved == IF pushed.nextBuffer_ # NullPtr
                    THEN [pushed EXCEPT !.currentBuffer_ = pushed.nextBuffer_,
                                        !.nextBuffer_ = NullPtr,
                                        !.log = @ \cup {"next taken"}]
                    ELSE [pushed EXCEPT !.currentBuffer_ = NewBuffer,
                                        !.log = @ \cup {"allocated"}]
       IN  [moved EXCEPT !.currentBuffer_ = FixedBuffer_append(@, len)]

\* threadFunc, the asserts at the top of an iteration.
threadFunc_top(a) ==
  LET a1 == AlAssert(a, a.newBuffer1 # NullPtr /\ a.newBuffer1 = NewBuffer)
      a2 == IF a1.aborted THEN a1
            ELSE AlAssert(a1, a1.newBuffer2 # NullPtr /\ a1.newBuffer2 = NewBuffer)
      a3 == IF a2.aborted THEN a2 ELSE AlAssert(a2, a2.buffersToWrite = << >>)
  IN  IF a3.aborted THEN a3 ELSE [a3 EXCEPT !.at = "lock"]

\* threadFunc under mutex_, after the wait if there was one: the current
\* buffer joins buffers_, the spares go to the front end, the vectors swap.
threadFunc_swap(a) ==
  LET b1 == [a EXCEPT !.buffers_ = Append(@, a.currentBuffer_),
                      !.currentBuffer_ = a.newBuffer1,
                      !.newBuffer1 = NullPtr]
      b2 == [b1 EXCEPT !.buffersToWrite = b1.buffers_, !.buffers_ = b1.buffersToWrite]
      b3 == IF b2.nextBuffer_ = NullPtr
            THEN [b2 EXCEPT !.nextBuffer_ = b2.newBuffer2, !.newBuffer2 = NullPtr,
                            !.log = @ \cup {"spare2 given"}]
            ELSE b2
  IN  [b3 EXCEPT !.at = "write"]

\* threadFunc after the unlock: what buffersToWrite keeps for the refill,
\* by the size it is cut to.
Kept(bs, n) == IF Len(bs) > n THEN SubSeq(bs, 1, n) ELSE bs

\* Refill of one spare from the back of buffersToWrite.
Refill1(a) ==
  IF a.aborted \/ a.newBuffer1 # NullPtr THEN a
  ELSE LET c == AlAssert(a, a.buffersToWrite # << >>)
       IN  IF c.aborted THEN c
           ELSE [c EXCEPT !.newBuffer1 = NewBuffer,
                          !.buffersToWrite = SubSeq(@, 1, Len(@) - 1),
                          !.log = @ \cup {"spare1 refilled"}]

Refill2(a) ==
  IF a.aborted \/ a.newBuffer2 # NullPtr THEN a
  ELSE LET c == AlAssert(a, a.buffersToWrite # << >>)
       IN  IF c.aborted THEN c
           ELSE [c EXCEPT !.newBuffer2 = NewBuffer,
                          !.buffersToWrite = SubSeq(@, 1, Len(@) - 1),
                          !.log = @ \cup {"spare2 refilled"}]

\* threadFunc from the unlock to the end of the iteration.
threadFunc_write_resizeOne(a) ==
  LET a1 == AlAssert(a, a.buffersToWrite # << >>)
      a2 == IF a1.aborted THEN a1
            ELSE IF Len(a1.buffersToWrite) > DropAbove
            THEN [a1 EXCEPT !.buffersToWrite = SubSeq(@, 1, 2),
                            !.log = @ \cup {"dropped"}]
            ELSE a1
      a3 == IF a2.aborted THEN a2
            ELSE [a2 EXCEPT !.output = @ + Total(a2.buffersToWrite),
                            !.buffersToWrite = Kept(@, 1)]
      a4 == Refill2(Refill1(a3))
  IN  IF a4.aborted THEN a4
      ELSE [a4 EXCEPT !.buffersToWrite = << >>, !.at = "top"]

threadFunc_write(a) ==
  LET a1 == AlAssert(a, a.buffersToWrite # << >>)
      a2 == IF a1.aborted THEN a1
            ELSE IF Len(a1.buffersToWrite) > DropAbove
            THEN [a1 EXCEPT !.buffersToWrite = SubSeq(@, 1, 2),
                            !.log = @ \cup {"dropped"}]
            ELSE a1
      a3 == IF a2.aborted THEN a2
            ELSE [a2 EXCEPT !.output = @ + Total(a2.buffersToWrite),
                            !.buffersToWrite = Kept(@, 2)]
      a4 == Refill2(Refill1(a3))
  IN  IF a4.aborted THEN a4
      ELSE [a4 EXCEPT !.buffersToWrite = << >>, !.at = "top"]

\* ------------------------------------------------------------ front end
\* append(logline, len) from any thread, before start() as well as after.
Al_append(len) ==
  /\ ~alAborted
  /\ alAppends < MaxAppends
  /\ AlCommit(AsyncLogging_append(Al, len))
  /\ alAppends' = alAppends + 1
  /\ UNCHANGED logging_running_

\* AsyncLogging::start: running_ = true and the thread enters threadFunc
\* with two new spare buffers and an empty buffersToWrite.
Al_start ==
  /\ alAt = "out"
  /\ ~logging_running_
  /\ AlCommit([Al EXCEPT !.newBuffer1 = NewBuffer, !.newBuffer2 = NewBuffer,
                         !.buffersToWrite = << >>, !.at = "top"])
  /\ logging_running_' = TRUE
  /\ UNCHANGED alAppends

\* AsyncLogging::stop: running_ = false.
Al_stop ==
  /\ logging_running_
  /\ alAt # "out"
  /\ logging_running_' = FALSE
  /\ AlCommit(Al)
  /\ UNCHANGED alAppends

\* ------------------------------------------------------------- back end
\* while (running_) and the asserts of a new iteration.
Al_top ==
  /\ alAt = "top"
  /\ AlCommit(IF logging_running_ THEN threadFunc_top(Al) ELSE [Al EXCEPT !.at = "exited"])
  /\ UNCHANGED << logging_running_, alAppends >>

\* The lock: with buffers_ empty the thread waits, mutex_ released.
Al_lock ==
  /\ alAt = "lock"
  /\ AlCommit(IF buffers_ = << >> THEN [Al EXCEPT !.at = "wait"] ELSE threadFunc_swap(Al))
  /\ UNCHANGED << logging_running_, alAppends >>

\* waitForSeconds returns, by a notify or by its timeout, mutex_ held again.
Al_wake ==
  /\ alAt = "wait"
  /\ AlCommit(threadFunc_swap(Al))
  /\ UNCHANGED << logging_running_, alAppends >>

Al_write ==
  /\ alAt = "write"
  /\ AlCommit(threadFunc_write(Al))
  /\ UNCHANGED << logging_running_, alAppends >>

AlNext ==
  \/ \E len \in {LineLen} : Al_append(len)
  \/ Al_start
  \/ Al_stop
  \/ Al_top
  \/ Al_lock
  \/ Al_wake
  \/ Al_write

AsyncLoggingSpec == Init /\ [][AlNext]_vars

\* ================================================================ claims
Late == {"message", "writeComplete", "highWaterMark"}

\* C1: once state_ has been kDisconnected, no message, write-complete or
\* high-water callback is invoked for the connection.
C1_NoCallbackAfterDisconnected == late \cap Late = {}

\* C2: the connection callback fires once on entry to Connected and once on
\* entry to Disconnected, up before down, however the connection ends: at
\* most one of each, a connection in kDisconnected has had its down callback,
\* and so has a connection whose connectDestroyed has run.
C2_UpOnceDownOnce ==
  /\ upCount <= 1
  /\ downCount <= 1
  /\ downCount > 0 => upCount = 1
  /\ state_ = kDisconnected => downCount = 1
  /\ destroyedRun => downCount = 1

C4_DisconnectedTerminal ==
  [][state_ = kDisconnected => state_' = kDisconnected]_vars

\* C5: no read and no write of state_, of the buffers or of the channel is
\* made off the worker loop's thread.
C5_OnlyOnLoopThread == offLoop = {}

\* The bytes send() has had accepted, in the order the socket gets them.
stream == wire \o outputBuffer_

\* b follows a in a stream that keeps every message whole and in order.
Follows(a, b) ==
  \/ b.seq = a.seq /\ b.i = a.i + 1
  \/ b.seq > a.seq /\ a.i = a.len /\ b.i = 1

\* C6: messages sent from the user thread reach the socket in the order in
\* which their sendInLoop was enqueued, each message whole and contiguous:
\* the bytes written and the bytes still buffered, in this order, start with
\* the first byte of a message, end with the last byte of a message, and
\* each byte follows the one before it.
C6_FifoContiguous ==
  /\ stream # << >> => stream[1].i = 1 /\ stream[Len(stream)].i = stream[Len(stream)].len
  /\ \A k \in 1..(Len(stream) - 1) : Follows(stream[k], stream[k + 1])

\* C6: the first message was written in part, and its rest and the second
\* message wait in the output buffer, in this order.
C6_Witness ==
  /\ Len(wire) = 1 /\ wire[1].seq = 1 /\ wire[1].len = 2
  /\ Len(outputBuffer_) >= 2
  /\ outputBuffer_[1].seq = 1
  /\ outputBuffer_[2].seq = 2

Queued(q, op) == Cardinality({k \in DOMAIN q : q[k].op = op})

\* C7: a step hands one high-water callback to queueInLoop exactly when it
\* takes the output buffer from below the mark to the mark or above (and
\* only sendInLoop appends); it never hands over more than one.
C7_HighWaterOncePerCrossing ==
  [][ /\ (Queued(pendingFunctors_', "highWaterMark") > Queued(pendingFunctors_, "highWaterMark"))
          <=> (Len(outputBuffer_) < HighWaterMark /\ Len(outputBuffer_') >= HighWaterMark)
      /\ Queued(pendingFunctors_', "highWaterMark") <= Queued(pendingFunctors_, "highWaterMark") + 1
    ]_vars

\* C7: two messages were appended, the first crossing the mark, the second
\* above it, and one high-water callback is queued.
C7_Witness ==
  /\ Len(outputBuffer_) > HighWaterMark
  /\ outputBuffer_[1].seq = 1 /\ outputBuffer_[Len(outputBuffer_)].seq = 2
  /\ Queued(pendingFunctors_, "highWaterMark") = 1
  /\ wire = << >>

\* The step is a sendInLoop whose direct write took the whole message.
DirectFull ==
  /\ phase = "calling" /\ functors # << >> /\ Head(functors).op = "sendInLoop"
  /\ [call |-> "sendInLoop", n |-> Len(Head(functors).msg), errno |-> "none"] \in io'

\* The step drains the output buffer to empty.
Drains == Len(outputBuffer_) > 0 /\ Len(outputBuffer_') = 0

\* C8: a step hands one write-complete callback to queueInLoop exactly when
\* it drains the output buffer to empty or is a send whose direct write took
\* the whole message; the output buffer is empty after such a step.
C8_WriteCompleteOnDrain ==
  [][ /\ (Queued(pendingFunctors_', "writeComplete") > Queued(pendingFunctors_, "writeComplete"))
          <=> (Drains \/ DirectFull)
      /\ Queued(pendingFunctors_', "writeComplete") <= Queued(pendingFunctors_, "writeComplete") + 1
      /\ (Queued(pendingFunctors_', "writeComplete") > Queued(pendingFunctors_, "writeComplete"))
          => Len(outputBuffer_') = 0
    ]_vars

\* C8: a write-ready event has just written the last buffered bytes, part of
\* the output was written by an earlier write, and the callback is queued.
C8_Witness ==
  /\ \E r \in io : r.call = "handleWrite" /\ r.n > 0 /\ r.n < Len(wire)
  /\ outputBuffer_ = << >>
  /\ Queued(pendingFunctors_, "writeComplete") = 1

\* The step writes bytes of a send to the socket or appends them to the
\* output buffer.
Accepts == Len(wire') + Len(outputBuffer_') > Len(wire) + Len(outputBuffer_)

\* C9: a send has an effect only on a kConnected connection.
C9_SendOnlyWhenConnected == [][Accepts => state_ = kConnected]_vars

\* C9 (amended): a send has no effect when its in-loop step runs on a
\* kDisconnected (or kConnecting) connection; on a kDisconnecting one it
\* still writes or appends.
C9_SendNotWhenDisconnected ==
  [][Accepts => state_ \in {kConnected, kDisconnecting}]_vars

\* C9: the in-loop step of a send has just written bytes to the socket of a
\* kDisconnecting connection.
C9_Witness ==
  /\ state_ = kDisconnecting
  /\ \E r \in io : r.call = "sendInLoop" /\ r.n > 0
  /\ wire # << >>

\* A system call of the step that the claim calls connection-fatal.
FatalWrite(r) ==
  /\ r.call \in {"sendInLoop", "handleWrite"}
  /\ \/ r.errno \in {"EPIPE", "ECONNRESET"}
     \/ r.call = "handleWrite" /\ r.n = 0
ReadZero(r) == r.call = "handleRead" /\ r.n = 0

\* The step takes the connection to kDisconnected and calls closeCallback_.
Closes == state_' = kDisconnected /\ closeCount' = closeCount + 1

\* C10: a write that fails with EPIPE or ECONNRESET, a read that returns 0
\* and a write that returns 0 with buffered output close the connection.
C10_FatalErrorsClose ==
  [][(\E r \in io' : FatalWrite(r) \/ ReadZero(r)) => Closes]_vars

\* C10 (amended): a read that returns 0 on a kConnected or kDisconnecting
\* connection closes it; a step with a failed or zero write leaves state_
\* as it was and calls no close callback.
C10_OnlyReadZeroCloses ==
  [][ /\ ((\E r \in io' : ReadZero(r)) /\ state_ \in {kConnected, kDisconnecting})
          => Closes
      /\ (\E r \in io' : FatalWrite(r))
          => (state_' = state_ /\ closeCount' = closeCount)
    ]_vars

\* C10: a read has just returned 0 and the connection is closed, its close
\* callback called once.
C10_Witness ==
  /\ \E r \in io : ReadZero(r)
  /\ state_ = kDisconnected
  /\ closeCount = 1

\* The connection has been closed: handleClose or connectDestroyed has run
\* (peer close, forceClose, destruction of the server).
Ended == closeHandled \/ destroyedRun

\* shutdown() has found the connection kConnected and set kDisconnecting
\* while output is buffered.
ShutdownWithOutput ==
  /\ upc.op = "shutdown" /\ upc.stage = "run"
  /\ state_ = kDisconnecting
  /\ Len(outputBuffer_) > 0
  /\ ~Ended

\* C11: after shutdown() on a kConnected connection with buffered output,
\* with the socket taking at least one byte at every write-ready event, the
\* output buffer eventually is empty and the socket half-closed for writing,
\* unless the connection is closed first.
C11_ShutdownDrainsThenHalfCloses ==
  ShutdownWithOutput ~> ((outputBuffer_ = << >> /\ wrShut) \/ Ended)

\* C11: shutdown() has set kDisconnecting and has not yet queued its
\* shutdownInLoop; a write-ready event has written the last buffered bytes
\* and half-closed the socket.
C11_Witness ==
  /\ upc.op = "shutdown" /\ upc.stage = "run"
  /\ \E r \in io : r.call = "handleWrite" /\ r.n > 0
  /\ outputBuffer_ = << >>
  /\ wrShut
  /\ ~Ended

\* C12: forceClose() called on a kConnecting or kConnected connection goes
\* on to set kDisconnecting: its check of state_ does not refuse the call.
C12_ForceCloseFromConnecting ==
  ~(upc.op = "forceClose" /\ upc.stage = "refused"
      /\ upc.saw \in {kConnecting, kConnected})

IsPrefix(s, q) == Len(s) <= Len(q) /\ s = SubSeq(q, 1, Len(s))

\* The steps of the close path, each with the thread it is to run on.
ClosePath ==
  << <<"down", WorkerThread>>, <<"close", WorkerThread>>,
     <<"erase", MainThread>>, <<"destroyed", WorkerThread>> >>

\* C13: once handleClose has called the close callback, and with the server
\* alive, the down callback, the close callback, the erase from the map and
\* connectDestroyed have happened in this order, each once and on its
\* thread, as far as they have happened.
C13_CloseStepsInOrder ==
  (closeCount > 0 /\ serverAlive) => IsPrefix(closeLog, ClosePath)

\* C14: whenever connectDestroyed removes the channel, the channel's
\* interest mask is empty.
C14_RemoveWithEmptyMask == \A r \in removeSaw : r.mask = {}

\* The main loop has erased the connection from the map on the close path.
Erased == \E k \in DOMAIN closeLog : closeLog[k][1] = "erase"

\* C15: once the server has been destroyed and the worker has run the
\* connectDestroyed the destructor queued for a connection of the map, the
\* connection is kDisconnected: connectDestroyed left it so.
C15_DisconnectedAfterServerDestroy ==
  (~serverAlive /\ destroyedRun /\ ~Erased)
    => \A r \in removeSaw : r.state = kDisconnected

\* The strong references (TcpConnectionPtr) to the connection that the
\* library holds: the server's map, the functors that were bound to a
\* TcpConnectionPtr and wait in a loop's list, and the guard of the channel's
\* dispatch.  The pointers of user threads are not counted.
HoldsPtr == {"connectEstablished", "connectDestroyed", "forceCloseInLoop",
             "writeComplete", "highWaterMark"}
Bound(q) == Cardinality({k \in DOMAIN q : q[k].op \in HoldsPtr})
guard == phase = "dispatching" /\ tied_
UseCount ==
  (IF connections_ THEN 1 ELSE 0) + Bound(pendingFunctors_) + Bound(functors)
    + Len(mainPending) + (IF guard THEN 1 ELSE 0)

\* C16: while the channel dispatches an event of the connection, the
\* dispatch holds a strong reference to the connection (the guard locked from
\* the tie), so at least one strong reference exists, also when the close
\* callback of that dispatch has had the connection erased from the map.
C16_StrongRefDuringDispatch ==
  (~aborted /\ phase = "dispatching") => (guard /\ UseCount >= 1)

\* C16: mid-dispatch, handleClose has run the close callback and the main
\* loop has already erased the connection from the map.
C16_Witness ==
  /\ ~aborted /\ phase = "dispatching"
  /\ closeCount = 1 /\ Erased /\ ~connections_
  /\ guard

\* C17: every change of the interest mask of the connection's channel and
\* every call of a callback of the connection (connection, message,
\* write-complete, high-water, close) is made on the thread of the worker
\* loop the connection was created with.
C17_ChannelAndCallbacksOnOwnerThread == offThread = {}

\* C17: the user thread has called stopRead; the worker loop has called the
\* connection callback and then stopReadInLoop, which emptied the mask.
C17_Witness ==
  /\ ~aborted /\ calls > 0 /\ Free
  /\ upCount = 1 /\ downCount = 0 /\ ~closeHandled
  /\ ~reading_ /\ added /\ events_ = {}
  /\ offThread = {}

\* C18: connections_ is inserted into and erased from on the main loop's
\* thread only, also when workers detect the closes, several at a time.
C18_MapChangedOnMainThreadOnly == \A e \in mapLog : e.thread = MainThread

\* C18: the two workers are in handleClose at the same time, each about to
\* report the close of a connection; a third close has already been erased.
C18_Witness ==
  /\ \E c, d \in Conns :
       /\ getNextLoop(c) # getNextLoop(d)
       /\ connState[c] = "closing" /\ connState[d] = "closing"
  /\ \E e \in mapLog : e.op = "erase"
  /\ \A c \in Conns : [op |-> "insert", conn |-> c, thread |-> MainThread] \in mapLog

Tasks == 1..MaxTasks
Executed(id) == \E k \in DOMAIN ran : ran[k].id = id /\ ran[k].thread = WorkerThread

\* C19: runInLoop(task) called on the loop's thread has executed the task
\* when it returns; called on another thread it has not executed the task
\* but queued it, no task ever executes off the loop's thread, and the
\* queued task is later executed on the loop's thread (unless the loop is
\* told to quit).
C19_RunInLoop ==
  /\ [](\A r \in runLog :
          IF r.thread = WorkerThread
            THEN r.ranInCall /\ ~r.queuedInCall
            ELSE ~r.ranInCall /\ r.queuedInCall)
  /\ [](\A k \in DOMAIN ran : ran[k].thread = WorkerThread)
  /\ \A id \in Tasks :
       (\E r \in runLog : r.id = id /\ r.thread = UserThread)
         ~> (Executed(id) \/ quit_)

\* C19: the loop's thread has called runInLoop, the other thread has too,
\* and both tasks have been executed on the loop's thread.
C19_Witness ==
  /\ ~quit_
  /\ \E r \in runLog : r.thread = WorkerThread /\ Executed(r.id)
  /\ \E r \in runLog : r.thread = UserThread /\ Executed(r.id)

\* C20: every task passed to queueInLoop is eventually executed on the
\* loop's thread, unless the loop is told to quit.
C20_NoStall ==
  \A id \in Tasks :
    (\E q \in queued : q.id = id) ~> (Executed(id) \/ quit_)

\* C20: a task queued by the other thread while the loop was blocked in poll
\* with the wakeup descriptor not readable has been executed, and so has a
\* task queued by a task while the loop was calling its pending functors.
C20_Witness ==
  /\ ~quit_
  /\ \E q \in queued :
       /\ q.thread = UserThread /\ q.when = "blocked"
       /\ Executed(q.id)
  /\ \E q \in queued :
       /\ q.thread = WorkerThread /\ q.when = "draining"
       /\ Executed(q.id)

\* The ids of the tasks that were pushed by queueInLoop.
QueuedIds == {q.id : q \in queued}
SeqRange(s) == {s[k] : k \in DOMAIN s}

\* C21: a drain calls exactly the tasks that were in the list when it was
\* swapped out, in the order of their enqueue (the order of their numbers),
\* and only after the event dispatch of the iteration; a task pushed during
\* the drain is not called in that drain, but is called later (unless the
\* loop is told to quit).
C21_DrainRunsTheSwappedList ==
  /\ [](/\ IsPrefix(drainRan, swapped)
        /\ evAt # "calling" => drainRan = swapped
        /\ \A i, j \in DOMAIN swapped : i < j => swapped[i] < swapped[j]
        /\ sinceSwap \cap SeqRange(drainRan) = {}
        /\ \A k \in DOMAIN ran :
             ran[k].id \in QueuedIds => ran[k].at = "calling")
  /\ \A id \in Tasks :
       (evAt = "calling" /\ id \in sinceSwap) ~> (Executed(id) \/ quit_)

\* C21: a task pushed by a task during a drain was left for the next
\* iteration, which swapped it out alone and called it.
C21_Witness ==
  /\ ~quit_
  /\ Len(ran) >= 3
  /\ \E q \in queued :
       /\ q.when = "draining"
       /\ swapped = << q.id >> /\ drainRan = swapped
       /\ \E k \in DOMAIN ran : ran[k].id = q.id /\ k = Len(ran)

\* C22: once quit() has been called, by the other thread or on the loop's
\* own thread, loop() does not block in poll again: it finishes the
\* iteration it is in and returns.
C22_QuitEndsLoop ==
  /\ [][(quit_ /\ evAt # "poll") => evAt' # "poll"]_vars
  /\ quit_ ~> (evAt = "exited")

\* C22: the other thread called quit while the loop was blocked in poll with
\* no descriptor ready, and loop() has returned.
C22_Witness ==
  /\ evAt = "exited"
  /\ \E q \in quitLog : q.thread = UserThread /\ q.when = "blocked"

\* The callbacks a channel owes one returned event set, in order.
Wanted(r, cb) ==
  \/ cb = "close" /\ "POLLHUP" \in r /\ "POLLIN" \notin r
  \/ cb = "error" /\ "POLLERR" \in r
  \/ cb = "read" /\ "POLLIN" \in r
  \/ cb = "write" /\ "POLLOUT" \in r
Expected(r) ==
  LET Want(cb) == Wanted(r, cb)
  IN  SelectSeq(<< "close", "error", "read", "write" >>, Want)

\* C23: for one returned event set the channel invokes close (hang-up
\* without read readiness), error (error bit), read (read-ready), write
\* (write-ready), in this order and each at most once; a dispatch that is
\* cut short by a failed assertion has invoked a prefix of them.
C23_DispatchOrder ==
  /\ IsPrefix(called, Expected(revents_))
  /\ ~aborted => called = Expected(revents_)

\* C23: one event set made the channel invoke three callbacks, close first.
C23_Witness ==
  /\ ~aborted
  /\ revents_ = {"POLLHUP", "POLLERR", "POLLOUT"}
  /\ called = << "close", "error", "write" >>

\* C24: every read event of the listening socket that met EMFILE has taken
\* one connection out of the listen queue.
C24_ExhaustionDrainsOne == \A e \in acLog : e.emfile => e.removed

\* C25: when handleRead has returned, idleFd_ is a valid placeholder again.
C25_PlaceholderRestored == acAt = "idle" => idleFd_ = "placeholder"

C27_RoundRobin ==
  \A k \in DOMAIN picks :
    picks[k] = IF numThreads_ = 0
                 THEN baseLoop_
                 ELSE WorkerLoop((k - 1) % numThreads_)

\* C27: three workers, and getNextLoop has gone round them more than twice.
C27_Witness ==
  /\ numThreads_ = 3
  /\ Len(picks) = 7
  /\ picks[7] = WorkerLoop(0)

\* C28: after every Buffer operation whose precondition holds, 0 <=
\* readerIndex_ <= writerIndex_ <= buffer_.size(), and the readable bytes
\* are writerIndex_ - readerIndex_ many.
C28_IndicesInRange ==
  /\ 0 <= readerIndex_
  /\ readerIndex_ <= writerIndex_
  /\ writerIndex_ <= Len(buffer_)
  /\ readableBytes(Buf) = writerIndex_ - readerIndex_
  /\ Len(peek(Buf)) = readableBytes(Buf)

\* readFd has read more than the writable bytes into a Buffer whose
\* headroom a prepend had used.
C28_Witness ==
  /\ bufLast.op = "readFd"
  /\ bufLast.len > writableBytes(bufLast.before)
  /\ readerIndex_ < kCheapPrepend
  /\ writerIndex_ = Len(buffer_)
  /\ Len(buffer_) > Len(bufLast.before.buffer_)
  /\ ~bufAborted

\* The operations that take readable bytes away.
Draining ==
  {"retrieve", "retrieveUntil", "retrieveAll", "retrieveAsString", "readInt",
   "unwrite"}

\* C29: whenever an operation that takes readable bytes away (retrieve,
\* retrieveUntil, retrieveAll, retrieveAsString, readIntN, unwrite) leaves
\* the Buffer with no readable byte, readerIndex_ and writerIndex_ are both
\* kCheapPrepend.
C29_FullDrainResets ==
  (bufLast.op \in Draining /\ readableBytes(Buf) = 0)
    => (readerIndex_ = kCheapPrepend /\ writerIndex_ = kCheapPrepend)

\* C30: an append of n bytes that does not fit in the writable bytes moves
\* the content to kCheapPrepend and keeps the size of buffer_ exactly when
\* writable + (readerIndex_ - kCheapPrepend) >= n, and otherwise resizes
\* buffer_ to writerIndex_ + n and moves nothing; either way the readable
\* content afterwards is the content before followed by the n bytes.
C30_AppendMakesSpace ==
  LET b == bufLast.before
      n == bufLast.len
  IN  (bufLast.op = "append" /\ writableBytes(b) < n) =>
        /\ peek(Buf) = peek(b) \o Data(n)
        /\ IF writableBytes(b) + (b.readerIndex_ - kCheapPrepend) >= n
           THEN /\ readerIndex_ = kCheapPrepend
                /\ writerIndex_ = kCheapPrepend + readableBytes(b) + n
                /\ Len(buffer_) = Len(b.buffer_)
           ELSE /\ readerIndex_ = b.readerIndex_
                /\ writerIndex_ = b.writerIndex_ + n
                /\ Len(buffer_) = b.writerIndex_ + n

\* An append has moved a content that is not empty to the headroom, its
\* room being exactly the bytes appended.
C30_Witness ==
  LET b == bufLast.before
      n == bufLast.len
  IN  /\ bufLast.op = "append"
      /\ writableBytes(b) < n
      /\ writableBytes(b) + (b.readerIndex_ - kCheapPrepend) = n
      /\ readableBytes(b) > 0
      /\ readerIndex_ = kCheapPrepend
      /\ Len(buffer_) = Len(b.buffer_)
      /\ peek(Buf) = peek(b) \o Data(n)

\* C31: a readFd that returns n >= 0 adds exactly n readable bytes, keeps
\* the content that was readable and places the n bytes after it in the
\* order they arrived, with or without extrabuf; when n <= writable the
\* vector keeps its size, readerIndex_ stays and only writerIndex_ moves.
C31_ReadFdAppends ==
  LET b == bufLast.before
      n == bufLast.len
  IN  (bufLast.op = "readFd" /\ n >= 0) =>
        /\ readableBytes(Buf) = readableBytes(b) + n
        /\ peek(Buf) = peek(b) \o Data(n)
        /\ n <= writableBytes(b) =>
             /\ readerIndex_ = b.readerIndex_
             /\ writerIndex_ = b.writerIndex_ + n
             /\ Len(buffer_) = Len(b.buffer_)
             /\ \A i \in DOMAIN buffer_ :
                  (i <= b.writerIndex_ \/ i > writerIndex_) => buffer_[i] = b.buffer_[i]

\* readFd has read more than the writable bytes behind a content that was
\* not empty.
C31_Witness ==
  /\ bufLast.op = "readFd"
  /\ bufLast.len > writableBytes(bufLast.before)
  /\ writableBytes(bufLast.before) > 0
  /\ readableBytes(bufLast.before) > 0
  /\ readableBytes(Buf) = readableBytes(bufLast.before) + bufLast.len

\* C32: when integers are appended with appendInt8/16/32/64 and read with
\* the matching readIntN in the same order, each read returns the integer
\* that was appended, oldest first, on a little-endian and on a big-endian
\* host, also when the vector has grown or the content has moved between.
C32_IntRoundTrip ==
  \A k \in DOMAIN intResult :
    \A i \in DOMAIN intResult[k].want : intResult[k].got = intResult[k].want[i]

\* On a little-endian host a readIntN of more than one byte has returned the
\* integer appended first, from a vector that has grown, another integer
\* still waiting behind it.
C32_Witness ==
  /\ bufLast.op = "readInt"
  /\ host = "little"
  /\ bufLast.len >= 2
  /\ intResult # << >>
  /\ intResult[1].want = << intResult[1].got >>
  /\ intQueue # << >>
  /\ Len(buffer_) > kCheapPrepend + InitialSize

\* C33 as stated: peekIntN leaves readerIndex_ and writerIndex_ as they
\* were, and readIntN advances readerIndex_ by the width of the type and
\* leaves writerIndex_ as it was, whenever that many bytes are readable.
C33_ReadAdvancesByWidth ==
  LET b == bufLast.before
  IN  /\ bufLast.op = "peekInt" =>
           (readerIndex_ = b.readerIndex_ /\ writerIndex_ = b.writerIndex_)
      /\ bufLast.op = "readInt" =>
           (readerIndex_ = b.readerIndex_ + bufLast.len /\ writerIndex_ = b.writerIndex_)

\* C33, amended: peekIntN leaves both indices as they were; readIntN
\* advances readerIndex_ by the width and leaves writerIndex_ when more
\* bytes than the width are readable, and sets both indices to
\* kCheapPrepend when exactly the width is readable.
C33_ReadAdvancesOrResets ==
  LET b == bufLast.before
  IN  /\ bufLast.op = "peekInt" =>
           (readerIndex_ = b.readerIndex_ /\ writerIndex_ = b.writerIndex_)
      /\ (bufLast.op = "readInt" /\ readableBytes(b) > bufLast.len) =>
           (readerIndex_ = b.readerIndex_ + bufLast.len /\ writerIndex_ = b.writerIndex_)
      /\ (bufLast.op = "readInt" /\ readableBytes(b) = bufLast.len) =>
           (readerIndex_ = kCheapPrepend /\ writerIndex_ = kCheapPrepend)

\* A readIntN has taken the last readable bytes of a Buffer whose
\* readerIndex_ had moved on.
C33_Witness ==
  /\ bufLast.op = "readInt"
  /\ readableBytes(bufLast.before) = bufLast.len
  /\ bufLast.before.readerIndex_ > kCheapPrepend
  /\ readerIndex_ = kCheapPrepend
  /\ writerIndex_ = kCheapPrepend

\* C34: while the connection is kConnected or kDisconnecting, after every
\* completed step of the loop its channel watches for writability if and
\* only if outputBuffer_ holds bytes.
C34_WriteInterestIffBuffered ==
  (state_ \in {kConnected, kDisconnecting} /\ ~aborted) =>
    ((kWriteEvent \in events_) <=> (outputBuffer_ # << >>))

\* C35: once the socket has been half-closed for writing, no step of the
\* loop calls write on it, whatever the order of send() and shutdown() of
\* different threads.
C35_NoWriteAfterHalfClose ==
  [][wrShut => \A r \in io' : r.call \notin {"sendInLoop", "handleWrite"}]_vars

\* C36: closeCallback_ is invoked at most once for the connection, so that
\* removeConnectionInLoop finds its map entry (n == 1) every time it runs,
\* whatever the order of the peer's close and the user's forceClose,
\* forceCloseWithDelay and shutdown.
C36_CloseCallbackOnce == closeCount <= 1

\* C37: whenever makeSpace moves the content instead of resizing, its
\* assertion kCheapPrepend < readerIndex_ holds: no operation has failed
\* it, and it holds for every length that would make the next
\* ensureWritableBytes move the content, headroom used by prepend or not.
C37_CompactionAssertHolds ==
  /\ ~bufAborted
  /\ \A len \in 1..MaxSize :
       (/\ writableBytes(Buf) < len
        /\ writableBytes(Buf) + prependableBytes(Buf) >= len + kCheapPrepend)
         => (kCheapPrepend < readerIndex_ /\ ~ensureWritableBytes(Buf, len).aborted)

\* An append has moved the content of a Buffer into whose headroom a
\* prepend had written earlier.
C37_Witness ==
  LET b == bufLast.before
  IN  /\ bufLast.op \in {"append", "ensureWritableBytes"}
      /\ writableBytes(b) < bufLast.len
      /\ writableBytes(b) + prependableBytes(b) >= bufLast.len + kCheapPrepend
      /\ b.buffer_[kCheapPrepend] # 0
      /\ readerIndex_ = kCheapPrepend
      /\ ~bufAborted

\* C38: with maxQueueSize_ > 0 and the pool's threads started, queue_ never
\* holds more than maxQueueSize_ tasks, whatever the order of the producers
\* in run() and the pool's threads in take().
C38_QueueBounded ==
  (maxQueueSize_ > 0 /\ threads_ # {}) => Len(queue_) <= maxQueueSize_

\* Both producers have waited for room and one has pushed after its wait
\* into a queue that is full again.
C38_Witness ==
  /\ maxQueueSize_ > 0
  /\ <<"waited", "p1">> \in tpLog
  /\ <<"waited", "p2">> \in tpLog
  /\ \E p \in Producers : <<"pushed late", p>> \in tpLog
  /\ Len(queue_) = maxQueueSize_

\* A thread is blocked inside the pool: it waits on a condition, or it has
\* been woken and has not yet left the wait loop.
Blocked(th) == tpAt[th] \in {"notFull.wait", "notEmpty.wait", "woken"}

stopCalled == tpAt[Owner] \in {"join", "returned"}

\* C39: once stop() has been called, stop() returns and every thread
\* blocked inside the pool, in take() on an empty queue or in run() on a
\* full one, gets out.
C39_StopReleasesAll ==
  /\ (tpAt[Owner] = "join") ~> (tpAt[Owner] = "returned")
  /\ \A th \in PoolThreads \cup Producers :
       (stopCalled /\ Blocked(th)) ~> ~Blocked(th)

\* C40: in threadFunc no assertion fails, those at the refill points
\* included, and at the start of each loop iteration both spare buffers are
\* present and empty, whatever the order of the append() calls and the
\* steps of the back end.
C40_SparesPresentAndEmpty ==
  /\ ~alAborted
  /\ alAt \in {"top", "lock", "wait"} => newBuffer1 = NewBuffer /\ newBuffer2 = NewBuffer

\* An iteration is over in which both spares had gone to the front end and
\* both were refilled from the buffers written; another in which buffers
\* were dropped.
C40_Witness ==
  /\ alAt = "top"
  /\ {"next taken", "spare2 given", "spare1 refilled", "spare2 refilled", "dropped"} \subseteq alLog
  /\ newBuffer1 = NewBuffer /\ newBuffer2 = NewBuffer
====
